---- MODULE Spec2Model ----
(***************************************************************************)
(* TravelAgent backend: the budget pipeline.                               *)
(*                                                                         *)
(*   backend/agents/budget_agent_v2.py   EnhancedBudgetAgent (allocator)   *)
(*   backend/agents/budget_agent.py      BudgetAgent (older tables)        *)
(*   backend/agents/coordinator.py       AgentCoordinator (pipeline)       *)
(*   backend/main.py                     the HTTP endpoints                *)
(*   backend/models/schemas.py           request validation                *)
(*                                                                         *)
(* Money is counted in paise (1/100 rupee), so that Python's               *)
(* round(x, 2) is a rounding of a rational number to an integer.           *)
(***************************************************************************)
EXTENDS Integers, Sequences, FiniteSets, TLC

(***************************************************************************)
(* Bounds of the model.                                                    *)
(***************************************************************************)
\* dates are day numbers 0..MaxDay
MaxDay == 3
\* the allocator is checked for every total of 1..MaxBudget paise
MaxBudget == 240

(***************************************************************************)
(* Input values.                                                           *)
(***************************************************************************)
\* trip_type strings as clients send them: the five table keys, two
\* spellings that only differ in case, and one type no table has
TripTypes ==
    {"luxurious", "adventurous", "family", "budget", "cultural",
     "Family", "LUXURIOUS", "honeymoon"}

\* str.lower() on the trip types above and on the city names of the
\* transport requests
Lower(s) ==
    CASE s = "Family" -> "family"
      [] s = "LUXURIOUS" -> "luxurious"
      [] s = "Vellore" -> "vellore"
      [] s = "Mumbai" -> "mumbai"
      [] OTHER -> s

\* A date field is Union[date, str]: a date (or an ISO string) is the day
\* number it denotes; a string datetime.fromisoformat rejects has iso = FALSE.
Dates == [iso : {TRUE}, day : 0..MaxDay] \cup [iso : {FALSE}, day : {0}]

\* TripRequest as the allocator reads it.  origin, destination, adults and
\* children are carried along unread by every operation modelled here (they
\* only appear in the recommendation texts) and are left out.
TripRequests(budgets) ==
    [trip_type : TripTypes, start_date : Dates, end_date : Dates, budget : budgets]

(***************************************************************************)
(* Arithmetic.                                                             *)
(***************************************************************************)
Min(a, b) == IF a <= b THEN a ELSE b

Abs(a) == IF a < 0 THEN -a ELSE a

\* round(n / d) for n >= 0, d > 0: to the nearest integer, a tie to the even
\* one (Python's round).  With n and d in paise this is round(x, 2) in rupees.
Round(n, d) ==
    LET q == n \div d
        r == n % d
    IN  IF 2 * r < d THEN q
        ELSE IF 2 * r > d THEN q + 1
        ELSE IF q % 2 = 0 THEN q ELSE q + 1

RECURSIVE SumSeq(_)
SumSeq(s) == IF s = <<>> THEN 0 ELSE Head(s) + SumSeq(Tail(s))

(***************************************************************************)
(* EnhancedBudgetAgent (budget_agent_v2.py)                                *)
(***************************************************************************)
\* the categories in the insertion order of the table dictionaries
Categories == <<"accommodation", "transport", "activities", "food", "miscellaneous">>

\* mutant: the cultural row with accommodation 30 instead of 28 (sum 102)
trip_type_allocations_cultural_102 ==
    [luxurious   |-> [accommodation |-> 40, transport |-> 25, activities |-> 20,
                      food |-> 10, miscellaneous |-> 5],
     adventurous |-> [accommodation |-> 25, transport |-> 20, activities |-> 35,
                      food |-> 12, miscellaneous |-> 8],
     family      |-> [accommodation |-> 30, transport |-> 25, activities |-> 25,
                      food |-> 15, miscellaneous |-> 5],
     budget      |-> [accommodation |-> 30, transport |-> 30, activities |-> 20,
                      food |-> 15, miscellaneous |-> 5],
     cultural    |-> [accommodation |-> 30, transport |-> 22, activities |-> 30,
                      food |-> 15, miscellaneous |-> 5]]

trip_type_allocations ==
    [luxurious   |-> [accommodation |-> 40, transport |-> 25, activities |-> 20,
                      food |-> 10, miscellaneous |-> 5],
     adventurous |-> [accommodation |-> 25, transport |-> 20, activities |-> 35,
                      food |-> 12, miscellaneous |-> 8],
     family      |-> [accommodation |-> 30, transport |-> 25, activities |-> 25,
                      food |-> 15, miscellaneous |-> 5],
     budget      |-> [accommodation |-> 30, transport |-> 30, activities |-> 20,
                      food |-> 15, miscellaneous |-> 5],
     cultural    |-> [accommodation |-> 28, transport |-> 22, activities |-> 30,
                      food |-> 15, miscellaneous |-> 5]]

\* str.capitalize() on the category names
Capitalize(s) ==
    CASE s = "accommodation" -> "Accommodation"
      [] s = "transport" -> "Transport"
      [] s = "activities" -> "Activities"
      [] s = "food" -> "Food"
      [] s = "miscellaneous" -> "Miscellaneous"
      [] s = "misc" -> "Misc"
      [] OTHER -> s

\* the table row for a (lower-cased) trip type, "family" when there is none
AllocationFor(tables, trip_type) ==
    IF trip_type \in DOMAIN tables THEN tables[trip_type] ELSE tables["family"]

\* value = (percentage / 100) * total_budget; round(value, 2)
CategoryAmount(percentage, total_budget) == Round(percentage * total_budget, 100)

\* the list of BudgetBreakdown(name, value, percentage), one per category
Breakdown(allocation, categories, total_budget) ==
    [i \in 1..Len(categories) |->
        [name       |-> Capitalize(categories[i]),
         value      |-> CategoryAmount(allocation[categories[i]], total_budget),
         percentage |-> allocation[categories[i]]]]

\* mutant: no per-unit budget (0) for a trip without nights
PerUnitZero(amount, units) == IF units > 0 THEN Round(amount, units) ELSE 0

\* amount / units, rounded to 2 places, or the whole amount when units <= 0
PerUnit(amount, units) == IF units > 0 THEN Round(amount, units) ELSE amount

\* EnhancedBudgetAgent.allocate_budget: raises ValueError on a date string
\* that is no ISO date, before anything is computed; otherwise the response
\* and the pipeline data.
allocate_budget(trip_request) ==
    IF ~(trip_request.start_date.iso /\ trip_request.end_date.iso)
    THEN [raised |-> TRUE]
    ELSE
    LET trip_type    == Lower(trip_request.trip_type)
        total_budget == trip_request.budget
        days         == trip_request.end_date.day - trip_request.start_date.day
        nights       == days
        allocation   == AllocationFor(trip_type_allocations, trip_type)
        allocated_amounts ==
            [c \in DOMAIN allocation |-> CategoryAmount(allocation[c], total_budget)]
    IN  [raised |-> FALSE,
         budget_response |->
            [total     |-> total_budget,
             breakdown |-> Breakdown(allocation, Categories, total_budget)],
         pipeline_data |->
            [total_budget              |-> total_budget,
             accommodation_budget      |-> allocated_amounts["accommodation"],
             hotel_budget_per_night    |-> PerUnit(allocated_amounts["accommodation"], nights),
             transport_budget          |-> allocated_amounts["transport"],
             activities_budget         |-> allocated_amounts["activities"],
             activities_budget_per_day |-> PerUnit(allocated_amounts["activities"], days),
             food_budget               |-> allocated_amounts["food"],
             food_budget_per_day       |-> PerUnit(allocated_amounts["food"], days),
             miscellaneous_budget      |-> allocated_amounts["miscellaneous"],
             trip_duration_days        |-> days,
             trip_duration_nights      |-> nights]]

(***************************************************************************)
(* BudgetAgent (budget_agent.py), the older allocator                      *)
(***************************************************************************)
CategoriesV1 == <<"accommodation", "transport", "activities", "food", "misc">>

trip_type_allocations_v1 ==
    [luxurious   |-> [accommodation |-> 40, transport |-> 25, activities |-> 20,
                      food |-> 10, misc |-> 5],
     adventurous |-> [accommodation |-> 25, transport |-> 30, activities |-> 30,
                      food |-> 10, misc |-> 5],
     family      |-> [accommodation |-> 35, transport |-> 25, activities |-> 25,
                      food |-> 10, misc |-> 5],
     budget      |-> [accommodation |-> 35, transport |-> 30, activities |-> 20,
                      food |-> 10, misc |-> 5],
     cultural    |-> [accommodation |-> 30, transport |-> 25, activities |-> 30,
                      food |-> 10, misc |-> 5]]

\* BudgetAgent.allocate_budget: the breakdown is computed first, then
\* _get_ai_recommendations parses the dates (outside its try) and raises
\* ValueError on a date string that is no ISO date.
allocate_budget_v1(trip_request) ==
    IF ~(trip_request.start_date.iso /\ trip_request.end_date.iso)
    THEN [raised |-> TRUE]
    ELSE
    LET allocation == AllocationFor(trip_type_allocations_v1, Lower(trip_request.trip_type))
    IN  [raised |-> FALSE,
         budget_response |->
            [total     |-> trip_request.budget,
             breakdown |-> Breakdown(allocation, CategoriesV1, trip_request.budget)]]

(***************************************************************************)
(* State.                                                                  *)
(***************************************************************************)
VARIABLES
    pipeline_context,   \* AgentCoordinator.pipeline_context of the global coordinator
    agent_calls,        \* the agent searches the last operation made, in order
    last,               \* the last operation: its caller, argument and outcome,
                        \* and whether the pipeline was primed when it began
    primed,             \* history: a process_budget has succeeded since
                        \* construction and since the last reset_pipeline
    alloc_request,      \* allocator check: the TripRequest under test
    alloc_result,       \* allocator check: what the allocator made of it
    agent_request,      \* agent checks: the request object an agent was given
    agent_response,     \* agent checks: what the agent made of it
    transport_search,   \* a search_transport call under way: its position,
                        \* its futures, the modes collected, the time passed
    irctc_client,       \* the global IRCTCClient: its _cache and the
                        \* search_trains calls under way
    sessions            \* the clients of the HTTP service: who sent the last
                        \* request, and each client's latest budget request

vars == <<pipeline_context, agent_calls, last, primed, alloc_request, alloc_result,
          agent_request, agent_response, transport_search, irctc_client, sessions>>

coord_vars == <<pipeline_context, agent_calls, last, primed>>

alloc_vars == <<alloc_request, alloc_result>>

agent_vars == <<agent_request, agent_response, transport_search>>

service_vars == <<irctc_client, sessions>>

(***************************************************************************)
(* AgentCoordinator (coordinator.py)                                       *)
(* Each method is an operator from the context and the argument to the     *)
(* outcome, the context afterwards, the request object afterwards (the     *)
(* methods assign to its budget field) and the agent calls made.           *)
(* agent_ok is whether the agent's search returns (TRUE) or raises.        *)
(***************************************************************************)
\* self.pipeline_context = {}
EmptyContext == << >>

\* dict.get(key, default)
Get(d, key, default) == IF key \in DOMAIN d THEN d[key] ELSE default

\* mutant: the guard written as `self.pipeline_context is None`, which a
\* dict never is
NotPrimedIsNone(ctx) == FALSE

\* `not self.pipeline_context`: an empty dict is falsy
NotPrimed(ctx) == DOMAIN ctx = {}

AgentCall(agent, by, budget, returned) ==
    [agent |-> agent, by |-> by, budget |-> budget, returned |-> returned]

\* mutant: the new data merged under the old context,
\* {"trip_request": ..., **pipeline_data, **self.pipeline_context}
process_budget_keeps_old(ctx, trip_request) ==
    LET result == allocate_budget(trip_request)
    IN  IF result.raised
        THEN [outcome |-> "ValueError", context |-> ctx, calls |-> << >>]
        ELSE [outcome |-> "returned",
              context |-> ctx @@ ("trip_request" :> trip_request) @@ result.pipeline_data,
              calls   |-> << >>]

\* {"trip_request": trip_request, **result["pipeline_data"]}
process_budget(ctx, trip_request) ==
    LET result == allocate_budget(trip_request)
    IN  IF result.raised
        THEN [outcome |-> "ValueError", context |-> ctx, calls |-> << >>]
        ELSE [outcome |-> "returned",
              context |-> ("trip_request" :> trip_request) @@ result.pipeline_data,
              calls   |-> << >>]

\* mutant: request.max_price = max_price_per_night, as the other two methods do
HotelCeilingOverride(ctx, request) ==
    Get(ctx, "hotel_budget_per_night", request.max_price)

\* request.max_price = min(request.max_price, max_price_per_night)
HotelCeiling(ctx, request) ==
    Min(request.max_price, Get(ctx, "hotel_budget_per_night", request.max_price))

\* mutant: the transport budget clamped the way search_hotels clamps max_price
TransportBudgetClamped(ctx, request) ==
    Min(request.budget_allocation,
        Get(ctx, "transport_budget", request.budget_allocation))

\* request.budget_allocation = transport_budget
TransportBudget(ctx, request) ==
    Get(ctx, "transport_budget", request.budget_allocation)

\* request.budget_allocation = activities_budget
ActivitiesBudget(ctx, request) ==
    Get(ctx, "activities_budget", request.budget_allocation)

\* mutant: the clamped ceiling written back into the pipeline context
search_hotels_stores_ceiling(ctx, request, agent_ok) ==
    IF NotPrimed(ctx)
    THEN [outcome |-> "PreconditionError", context |-> ctx, request |-> request,
          calls |-> << >>]
    ELSE LET forwarded == [request EXCEPT !.max_price = HotelCeiling(ctx, request)]
         IN  [outcome |-> IF agent_ok THEN "returned" ELSE "AgentError",
              context |-> [ctx EXCEPT !.hotel_budget_per_night = forwarded.max_price],
              request |-> forwarded,
              calls   |-> <<AgentCall("hotel_agent", "coordinator",
                                      forwarded.max_price, agent_ok)>>]

search_hotels(ctx, request, agent_ok) ==
    IF NotPrimed(ctx)
    THEN [outcome |-> "PreconditionError", context |-> ctx, request |-> request,
          calls |-> << >>]
    ELSE LET forwarded == [request EXCEPT !.max_price = HotelCeiling(ctx, request)]
         IN  [outcome |-> IF agent_ok THEN "returned" ELSE "AgentError",
              context |-> ctx,
              request |-> forwarded,
              calls   |-> <<AgentCall("hotel_agent", "coordinator",
                                      forwarded.max_price, agent_ok)>>]

search_transport(ctx, request, agent_ok) ==
    IF NotPrimed(ctx)
    THEN [outcome |-> "PreconditionError", context |-> ctx, request |-> request,
          calls |-> << >>]
    ELSE LET forwarded ==
                [request EXCEPT !.budget_allocation = TransportBudget(ctx, request)]
         IN  [outcome |-> IF agent_ok THEN "returned" ELSE "AgentError",
              context |-> ctx,
              request |-> forwarded,
              calls   |-> <<AgentCall("transport_agent", "coordinator",
                                      forwarded.budget_allocation, agent_ok)>>]

\* The comparison of the result's total cost with the budget only logs.
generate_itinerary(ctx, request, agent_ok) ==
    IF NotPrimed(ctx)
    THEN [outcome |-> "PreconditionError", context |-> ctx, request |-> request,
          calls |-> << >>]
    ELSE LET forwarded ==
                [request EXCEPT !.budget_allocation = ActivitiesBudget(ctx, request)]
         IN  [outcome |-> IF agent_ok THEN "returned" ELSE "AgentError",
              context |-> ctx,
              request |-> forwarded,
              calls   |-> <<AgentCall("activities_agent", "coordinator",
                                      forwarded.budget_allocation, agent_ok)>>]

\* mutant: only the stored request is dropped, the derived budgets stay
reset_pipeline_keeps_budgets(ctx) ==
    [outcome |-> "returned",
     context |-> [k \in DOMAIN ctx \ {"trip_request"} |-> ctx[k]],
     calls   |-> << >>]

reset_pipeline(ctx) ==
    [outcome |-> "returned", context |-> EmptyContext, calls |-> << >>]

(***************************************************************************)
(* The HTTP endpoints (main.py) and request validation (schemas.py)        *)
(***************************************************************************)
\* TripRequest's field constraints that bear on the allocation:
\* budget: float = Field(..., gt=0).  The date fields are Union[date, str]
\* with no validator, so any pair of dates and any string passes.
TripRequestValid(body) == body.budget > 0

\* POST /api/budget/analyze.  A body that fails validation is answered 422 by
\* the framework and the handler does not run; an exception of process_budget
\* becomes HTTPException(500).
analyze_budget(ctx, body) ==
    IF ~TripRequestValid(body)
    THEN [coordinator |-> "not called", status |-> "422", context |-> ctx,
          calls |-> << >>]
    ELSE LET c == process_budget(ctx, body)
         IN  [coordinator |-> c.outcome,
              status      |-> IF c.outcome = "returned" THEN "200" ELSE "500",
              context     |-> c.context,
              calls       |-> c.calls]

\* mutant: the coordinator's exception answered with HTTPException(400), as
\* analyze_budget answers with HTTPException(500), and no second search
EndpointRaises(c, agent, budget, agent_ok2) ==
    IF c.outcome = "returned"
    THEN [coordinator |-> c.outcome, status |-> "200", context |-> c.context,
          calls |-> c.calls]
    ELSE [coordinator |-> c.outcome, status |-> "400", context |-> c.context,
          calls |-> c.calls]

\* The three search endpoints share one shape: try the coordinator; on any
\* exception call the agent directly with the request object as it is then;
\* an exception of that second call reaches the general handler (500).
EndpointFallback(c, agent, budget, agent_ok2) ==
    IF c.outcome = "returned"
    THEN [coordinator |-> c.outcome, status |-> "200", context |-> c.context,
          calls |-> c.calls]
    ELSE [coordinator |-> c.outcome,
          status      |-> IF agent_ok2 THEN "200" ELSE "500",
          context     |-> c.context,
          calls       |-> Append(c.calls, AgentCall(agent, "endpoint", budget, agent_ok2))]

\* POST /api/hotels/search
search_hotels_endpoint(ctx, request, agent_ok, agent_ok2) ==
    LET c == search_hotels(ctx, request, agent_ok)
    IN  EndpointFallback(c, "hotel_agent", c.request.max_price, agent_ok2)

\* POST /api/transport/search
search_transport_endpoint(ctx, request, agent_ok, agent_ok2) ==
    LET c == search_transport(ctx, request, agent_ok)
    IN  EndpointFallback(c, "transport_agent", c.request.budget_allocation, agent_ok2)

\* POST /api/itinerary/generate
generate_itinerary_endpoint(ctx, request, agent_ok, agent_ok2) ==
    LET c == generate_itinerary(ctx, request, agent_ok)
    IN  EndpointFallback(c, "activities_agent", c.request.budget_allocation, agent_ok2)

(***************************************************************************)
(* Inputs of the pipeline specification.                                   *)
(***************************************************************************)
\* totals in paise: the two scenario totals (60000 and 100000 rupees) and
\* one whose shares do not come out in whole paise
PipelineBudgets == {6000000, 10000000, 12345}

\* what a client can put in the budget field and validation must stop
RejectedBudgets == {0, -50000}

PipelineTripTypes == {"family", "LUXURIOUS", "honeymoon"}

PipelineStartDates == {d \in Dates : d.day <= 1}

PipelineEndDates == {d \in Dates : d.iso /\ d.day \in {0, MaxDay}}

\* TripRequest objects: constructing one validates it
PipelineTripRequests ==
    [trip_type : PipelineTripTypes, start_date : PipelineStartDates,
     end_date : PipelineEndDates, budget : PipelineBudgets]

\* request bodies of POST /api/budget/analyze
PipelineBodies ==
    [trip_type : PipelineTripTypes, start_date : PipelineStartDates,
     end_date : PipelineEndDates, budget : PipelineBudgets \cup RejectedBudgets]

\* the budget field of a search request, in paise (4000, 9000 and 0.50 rupees)
SearchBudgets == {400000, 900000, 50}

HotelSearchRequests == [max_price : SearchBudgets]

TransportSearchRequests == [budget_allocation : SearchBudgets]

ItineraryRequests == [budget_allocation : SearchBudgets]

SearchOps == {"search_hotels", "search_transport", "generate_itinerary"}

(***************************************************************************)
(* Actions of the pipeline specification.                                  *)
(***************************************************************************)
NoResult == [agent |-> "none"]

\* no search_transport call under way
NoSearch == [pc |-> "idle"]

\* IRCTCClient.__init__: self._cache = {}, and no search_trains call yet
NewIRCTCClient == [cache |-> << >>, calls |-> << >>]

\* no client has sent a request
NoSessions == [client |-> "none", budgets |-> << >>]

Init ==
    /\ pipeline_context = EmptyContext
    /\ agent_calls = << >>
    /\ last = [layer |-> "none", op |-> "__init__", request |-> << >>,
               coordinator |-> "returned", status |-> "n/a", primed_before |-> FALSE]
    /\ primed = FALSE
    /\ alloc_request = << >>
    /\ alloc_result = NoResult
    /\ agent_request = << >>
    /\ agent_response = NoResult
    /\ transport_search = NoSearch
    /\ irctc_client = NewIRCTCClient
    /\ sessions = NoSessions

\* a direct call of a coordinator method
Called(op, request, c) ==
    /\ pipeline_context' = c.context
    /\ agent_calls' = c.calls
    /\ last' = [layer |-> "coordinator", op |-> op, request |-> request,
                coordinator |-> c.outcome, status |-> "n/a",
                primed_before |-> primed]
    /\ primed' = IF op = "process_budget" /\ c.outcome = "returned" THEN TRUE
                 ELSE IF op = "reset_pipeline" THEN FALSE
                 ELSE primed
    /\ UNCHANGED <<service_vars, alloc_vars, agent_vars>>

\* a request served by an endpoint
Served(op, request, e) ==
    /\ pipeline_context' = e.context
    /\ agent_calls' = e.calls
    /\ last' = [layer |-> "http", op |-> op, request |-> request,
                coordinator |-> e.coordinator, status |-> e.status,
                primed_before |-> primed]
    /\ primed' = IF op = "process_budget" /\ e.coordinator = "returned" THEN TRUE
                 ELSE primed
    /\ UNCHANGED <<service_vars, alloc_vars, agent_vars>>

ProcessBudget ==
    \E trip_request \in PipelineTripRequests :
        Called("process_budget", trip_request,
               process_budget(pipeline_context, trip_request))

SearchHotels ==
    \E request \in HotelSearchRequests, agent_ok \in BOOLEAN :
        Called("search_hotels", request,
               search_hotels(pipeline_context, request, agent_ok))

SearchTransport ==
    \E request \in TransportSearchRequests, agent_ok \in BOOLEAN :
        Called("search_transport", request,
               search_transport(pipeline_context, request, agent_ok))

GenerateItinerary ==
    \E request \in ItineraryRequests, agent_ok \in BOOLEAN :
        Called("generate_itinerary", request,
               generate_itinerary(pipeline_context, request, agent_ok))

ResetPipeline ==
    Called("reset_pipeline", << >>, reset_pipeline(pipeline_context))

PostBudgetAnalyze ==
    \E body \in PipelineBodies :
        Served("process_budget", body, analyze_budget(pipeline_context, body))

PostHotelsSearch ==
    \E request \in HotelSearchRequests, agent_ok \in BOOLEAN, agent_ok2 \in BOOLEAN :
        Served("search_hotels", request,
               search_hotels_endpoint(pipeline_context, request, agent_ok, agent_ok2))

PostTransportSearch ==
    \E request \in TransportSearchRequests, agent_ok \in BOOLEAN, agent_ok2 \in BOOLEAN :
        Served("search_transport", request,
               search_transport_endpoint(pipeline_context, request, agent_ok, agent_ok2))

PostItineraryGenerate ==
    \E request \in ItineraryRequests, agent_ok \in BOOLEAN, agent_ok2 \in BOOLEAN :
        Served("generate_itinerary", request,
               generate_itinerary_endpoint(pipeline_context, request, agent_ok, agent_ok2))

Next ==
    \/ ProcessBudget
    \/ SearchHotels
    \/ SearchTransport
    \/ GenerateItinerary
    \/ ResetPipeline
    \/ PostBudgetAnalyze
    \/ PostHotelsSearch
    \/ PostTransportSearch
    \/ PostItineraryGenerate

Spec == Init /\ [][Next]_vars

(***************************************************************************)
(* The service as deployed: main.py is the only caller of the global       *)
(* coordinator, and it never calls reset_pipeline.                         *)
(***************************************************************************)
NextHttp ==
    \/ PostBudgetAnalyze
    \/ PostHotelsSearch
    \/ PostTransportSearch
    \/ PostItineraryGenerate

SpecHttp == Init /\ [][NextHttp]_vars

(***************************************************************************)
(* The allocator specification: both allocators applied to every request   *)
(* of the bounded input space.                                             *)
(***************************************************************************)
InitAlloc ==
    /\ pipeline_context = EmptyContext
    /\ agent_calls = << >>
    /\ last = [layer |-> "none", op |-> "__init__", request |-> << >>,
               coordinator |-> "returned", status |-> "n/a", primed_before |-> FALSE]
    /\ primed = FALSE
    /\ alloc_request \in TripRequests(1..MaxBudget)
    /\ alloc_result = NoResult
    /\ agent_request = << >>
    /\ agent_response = NoResult
    /\ transport_search = NoSearch
    /\ irctc_client = NewIRCTCClient
    /\ sessions = NoSessions

Allocate ==
    /\ alloc_result' = [agent |-> "budget_agent_v2"] @@ allocate_budget(alloc_request)
    /\ UNCHANGED <<service_vars, alloc_request, coord_vars, agent_vars>>

AllocateV1 ==
    /\ alloc_result' = [agent |-> "budget_agent"] @@ allocate_budget_v1(alloc_request)
    /\ UNCHANGED <<service_vars, alloc_request, coord_vars, agent_vars>>

NextAlloc == Allocate \/ AllocateV1

SpecAlloc == InitAlloc /\ [][NextAlloc]_vars

(***************************************************************************)
(* Vocabulary of the properties.                                           *)
(***************************************************************************)
\* the context a single successful process_budget(trip_request) stores
ContextOf(trip_request) ==
    ("trip_request" :> trip_request) @@ allocate_budget(trip_request).pipeline_data

\* the budget field of a search request, as the caller sent it
RequestedBudget(op, request) ==
    IF op = "search_hotels" THEN request.max_price ELSE request.budget_allocation

AgentOf(op) ==
    CASE op = "search_hotels" -> "hotel_agent"
      [] op = "search_transport" -> "transport_agent"
      [] op = "generate_itinerary" -> "activities_agent"

\* the agent calls the coordinator itself made in the last operation
CoordinatorCalls == SelectSeq(agent_calls, LAMBDA call : call.by = "coordinator")

\* the last operation was a search whose coordinator method got past its guard
SearchForwarded(op) ==
    /\ last.op = op
    /\ last.coordinator \in {"returned", "AgentError"}

ClientErrorStatuses == {"400", "404", "409", "412", "422", "428"}

\* the scenario of the specification: 60000 rupees, 3 nights, family
ScenarioTrip ==
    [trip_type |-> "family", start_date |-> [iso |-> TRUE, day |-> 0],
     end_date |-> [iso |-> TRUE, day |-> 3], budget |-> 6000000]

(***************************************************************************)
(* Properties of the pipeline (specification Spec; C10 under SpecHttp).    *)
(***************************************************************************)
\* C1: while no process_budget has succeeded since construction or since the
\* last reset_pipeline, each of search_hotels, search_transport and
\* generate_itinerary raises the precondition error, the coordinator invokes
\* no agent, and the pipeline context is left as it was.
C1_UninitializedSearchRaises ==
    [][ (~primed /\ last'.op \in SearchOps) =>
            /\ last'.coordinator = "PreconditionError"
            /\ CoordinatorCalls' = << >>
            /\ pipeline_context' = pipeline_context ]_vars

C1_Witness ==
    /\ ~primed
    /\ last.layer = "coordinator"
    /\ last.op \in SearchOps
    /\ last.coordinator = "PreconditionError"
    /\ agent_calls = << >>

\* C2: once primed, search_hotels hands the hotel agent
\* max_price = min(request.max_price, hotel_budget_per_night), whatever
\* max_price was requested; with 60000 rupees, 3 nights, family the ceiling is
\* 6000, so 9000 is forwarded as 6000 and 4000 as 4000.
C2_HotelCeilingIsMin ==
    SearchForwarded("search_hotels") =>
        /\ Len(CoordinatorCalls) = 1
        /\ CoordinatorCalls[1].agent = "hotel_agent"
        /\ CoordinatorCalls[1].budget =
              Min(last.request.max_price, pipeline_context.hotel_budget_per_night)
        /\ pipeline_context.trip_request = ScenarioTrip =>
              /\ pipeline_context.hotel_budget_per_night = 600000
              /\ last.request.max_price = 900000 => CoordinatorCalls[1].budget = 600000
              /\ last.request.max_price = 400000 => CoordinatorCalls[1].budget = 400000

C2_Witness ==
    /\ SearchForwarded("search_hotels")
    /\ pipeline_context.trip_request = ScenarioTrip
    /\ last.request.max_price = 900000
    /\ CoordinatorCalls[1].budget = 600000

\* C3 as stated: once primed, search_transport and generate_itinerary forward
\* min(request.budget_allocation, transport_budget resp. activities_budget),
\* so never more than the caller asked for.
C3_ForwardedBudgetIsMin ==
    \A op \in {"search_transport", "generate_itinerary"} :
        SearchForwarded(op) =>
            /\ Len(CoordinatorCalls) = 1
            /\ CoordinatorCalls[1].budget =
                  Min(last.request.budget_allocation,
                      IF op = "search_transport"
                      THEN pipeline_context.transport_budget
                      ELSE pipeline_context.activities_budget)
            /\ CoordinatorCalls[1].budget <= last.request.budget_allocation

\* C3 amended: once primed, search_transport and generate_itinerary forward
\* the pipeline's transport_budget resp. activities_budget itself, whatever
\* budget_allocation the request carried.
C3_ForwardedBudgetIsPipelineValue ==
    \A op \in {"search_transport", "generate_itinerary"} :
        SearchForwarded(op) =>
            /\ Len(CoordinatorCalls) = 1
            /\ CoordinatorCalls[1].agent = AgentOf(op)
            /\ CoordinatorCalls[1].budget =
                  IF op = "search_transport"
                  THEN pipeline_context.transport_budget
                  ELSE pipeline_context.activities_budget

\* a transport search that was handed more than its caller asked for
C3_Witness ==
    /\ SearchForwarded("search_transport")
    /\ CoordinatorCalls[1].budget = pipeline_context.transport_budget
    /\ CoordinatorCalls[1].budget > last.request.budget_allocation

\* C4 as stated: a search endpoint called before the pipeline is primed
\* answers with a client error and no agent search is made.
C4_UnprimedSearchIsClientError ==
    (last.layer = "http" /\ last.op \in SearchOps /\ ~last.primed_before) =>
        /\ last.status \in ClientErrorStatuses
        /\ agent_calls = << >>

\* C4 amended: a search endpoint called before the pipeline is primed catches
\* the coordinator's precondition error and runs the agent's search itself,
\* once, with the budget the request carried (unclamped); the answer is that
\* search's result (200), or 500 if that search raises, never a client error.
C4_UnprimedSearchFallsBack ==
    (last.layer = "http" /\ last.op \in SearchOps /\ ~last.primed_before) =>
        /\ last.coordinator = "PreconditionError"
        /\ Len(agent_calls) = 1
        /\ agent_calls[1].by = "endpoint"
        /\ agent_calls[1].agent = AgentOf(last.op)
        /\ agent_calls[1].budget = RequestedBudget(last.op, last.request)
        /\ last.status = IF agent_calls[1].returned THEN "200" ELSE "500"

C4_Witness ==
    /\ last.layer = "http"
    /\ last.op = "search_hotels"
    /\ ~last.primed_before
    /\ last.status = "200"
    /\ Len(agent_calls) = 1
    /\ agent_calls[1].budget = 900000

\* C5: reset_pipeline empties the context from any state; while the context
\* is empty every search raises the precondition error and leaves it empty;
\* only a successful process_budget makes it non-empty again, and from then
\* on searches pass the guard.
C5_ResetReturnsToUninitialized ==
    [][ /\ last'.op = "reset_pipeline" => pipeline_context' = EmptyContext
        /\ (pipeline_context = EmptyContext /\ last'.op \in SearchOps) =>
              /\ last'.coordinator = "PreconditionError"
              /\ pipeline_context' = EmptyContext
        /\ (pipeline_context = EmptyContext /\ pipeline_context' # EmptyContext) =>
              /\ last'.op = "process_budget"
              /\ last'.coordinator = "returned"
        /\ (last'.op = "process_budget" /\ last'.coordinator = "returned") =>
              pipeline_context' # EmptyContext
        /\ (pipeline_context # EmptyContext /\ last'.op \in SearchOps) =>
              last'.coordinator # "PreconditionError" ]_vars

\* a reset of a primed pipeline
C5_Witness ==
    /\ last.op = "reset_pipeline"
    /\ last.primed_before
    /\ pipeline_context = EmptyContext
    /\ ~primed

\* C6: after a successful process_budget the context is exactly what a single
\* process_budget of that request stores in a fresh coordinator: the request
\* and the budgets derived from it, nothing of an earlier request.
C6_ProcessBudgetOverwrites ==
    (last.op = "process_budget" /\ last.coordinator = "returned") =>
        /\ pipeline_context = ContextOf(last.request)
        /\ pipeline_context = process_budget(EmptyContext, last.request).context

\* a process_budget on an already primed pipeline
C6_Witness ==
    /\ last.op = "process_budget"
    /\ last.coordinator = "returned"
    /\ last.primed_before
    /\ pipeline_context.trip_request = last.request

\* C7: no search changes the pipeline context, so a primed context is always
\* the one process_budget derived from the trip_request it stores.
C7_SearchesLeaveContext ==
    [][ /\ last'.op \in SearchOps => pipeline_context' = pipeline_context
        /\ primed' => pipeline_context' = ContextOf(pipeline_context'.trip_request) ]_vars

\* a search that rewrote its request's budget and returned
C7_Witness ==
    /\ primed
    /\ last.op \in SearchOps
    /\ last.coordinator = "returned"
    /\ CoordinatorCalls[1].budget # RequestedBudget(last.op, last.request)
    /\ pipeline_context = ContextOf(pipeline_context.trip_request)

\* C10 as stated: a request whose end_date is not after its start_date, or
\* whose budget is not positive, is answered with a validation error without
\* the coordinator being called, so a primed pipeline always stores a
\* trip_duration_days of at least 1.
C10_BadTripRejected ==
    /\ (/\ last.layer = "http"
        /\ last.op = "process_budget"
        /\ \/ last.request.budget <= 0
           \/ /\ last.request.start_date.iso
              /\ last.request.end_date.iso
              /\ last.request.end_date.day <= last.request.start_date.day) =>
            /\ last.status = "422"
            /\ last.coordinator = "not called"
    /\ primed => pipeline_context.trip_duration_days >= 1

(***************************************************************************)
(* Properties of the allocators (specification SpecAlloc).                 *)
(***************************************************************************)
Rows(tables) == {tables[t] : t \in DOMAIN tables}

RowSum(row, categories) == SumSeq([i \in 1..Len(categories) |-> row[categories[i]]])

Allocated == alloc_result.agent # "none" /\ ~alloc_result.raised

BreakdownValues ==
    [i \in 1..Len(alloc_result.budget_response.breakdown) |->
        alloc_result.budget_response.breakdown[i].value]

BreakdownPercentages ==
    [i \in 1..Len(alloc_result.budget_response.breakdown) |->
        alloc_result.budget_response.breakdown[i].percentage]

AllocDays == alloc_request.end_date.day - alloc_request.start_date.day

\* C8: every row of both percentage tables sums to 100, so does the row an
\* allocation used (the family row for an unknown trip type); each rounded
\* amount is within 0.01 of its exact share and the amounts sum to the total
\* within 0.05.
C8_AllocationSumsToTotal ==
    /\ \A row \in Rows(trip_type_allocations) : RowSum(row, Categories) = 100
    /\ \A row \in Rows(trip_type_allocations_v1) : RowSum(row, CategoriesV1) = 100
    /\ Allocated =>
        /\ SumSeq(BreakdownPercentages) = 100
        /\ \A i \in 1..Len(BreakdownValues) :
              Abs(100 * BreakdownValues[i] - BreakdownPercentages[i] * alloc_request.budget)
                 <= 100
        /\ Abs(SumSeq(BreakdownValues) - alloc_request.budget) <= 5
        /\ alloc_result.budget_response.total = alloc_request.budget

\* an allocation for an unknown trip type whose rounded amounts miss the total
C8_Witness ==
    /\ Allocated
    /\ alloc_request.trip_type = "honeymoon"
    /\ SumSeq(BreakdownValues) # alloc_request.budget
    /\ SumSeq(BreakdownPercentages) = 100

\* C9: for a trip of zero or fewer nights/days allocate_budget returns, with
\* hotel_budget_per_night the whole accommodation amount and
\* activities_budget_per_day and food_budget_per_day their whole category
\* amounts.
C9_ZeroNightsWholeAmount ==
    (alloc_result.agent = "budget_agent_v2" /\ ~alloc_result.raised /\ AllocDays <= 0) =>
        /\ alloc_result.pipeline_data.trip_duration_nights = AllocDays
        /\ alloc_result.pipeline_data.hotel_budget_per_night =
              CategoryAmount(AllocationFor(trip_type_allocations,
                                           Lower(alloc_request.trip_type)).accommodation,
                             alloc_request.budget)
        /\ alloc_result.pipeline_data.hotel_budget_per_night =
              alloc_result.pipeline_data.accommodation_budget
        /\ alloc_result.pipeline_data.activities_budget_per_day =
              alloc_result.pipeline_data.activities_budget
        /\ alloc_result.pipeline_data.food_budget_per_day =
              alloc_result.pipeline_data.food_budget

\* a zero-night allocation with money in the per-unit categories
C9_Witness ==
    /\ alloc_result.agent = "budget_agent_v2"
    /\ ~alloc_result.raised
    /\ AllocDays = 0
    /\ alloc_result.pipeline_data.hotel_budget_per_night > 0
    /\ alloc_result.pipeline_data.food_budget_per_day > 0

(***************************************************************************)
(* ActivitiesAgent (activities_agent.py)                                   *)
(* The itinerary is a sequence of day plans; a day plan is its day number, *)
(* its activities (name and cost in paise) and its total_cost.             *)
(***************************************************************************)
\* ItineraryRequest as the agent reads it.  start_date and end_date are
\* `date` fields, so they are day numbers; destination and interests only
\* appear in the prompt and in description texts.
ActivityRequests(budgets) ==
    [trip_type : TripTypes, start_date : 0..1, end_date : 0..MaxDay,
     budget_allocation : budgets]

\* cost_pct of the three templates of each trip type, in hundredths
activity_templates ==
    [luxurious |-> <<[name |-> "Spa & Wellness", cost_pct |-> 30],
                     [name |-> "Fine Dining Experience", cost_pct |-> 35],
                     [name |-> "Private City Tour", cost_pct |-> 25]>>,
     adventurous |-> <<[name |-> "Trekking Expedition", cost_pct |-> 35],
                       [name |-> "Water Sports", cost_pct |-> 40],
                       [name |-> "Camping Experience", cost_pct |-> 15]>>,
     family |-> <<[name |-> "Local Museum Visit", cost_pct |-> 15],
                  [name |-> "Family Restaurant", cost_pct |-> 25],
                  [name |-> "Theme Park", cost_pct |-> 35]>>,
     cultural |-> <<[name |-> "Heritage Walk", cost_pct |-> 20],
                    [name |-> "Traditional Performance", cost_pct |-> 30],
                    [name |-> "Local Market Exploration", cost_pct |-> 15]>>,
     budget |-> <<[name |-> "Free Walking Tour", cost_pct |-> 5],
                  [name |-> "Street Food Tour", cost_pct |-> 15],
                  [name |-> "Public Park Visit", cost_pct |-> 0]>>]

\* activity_templates.get(request.trip_type.lower(), activity_templates["family"])
TemplatesFor(trip_type) ==
    Get(activity_templates, Lower(trip_type), activity_templates.family)

\* the activity appended first on day 1
CheckIn == [name |-> "Hotel Check-in & Relaxation", cost |-> 0]

\* round(budget_per_day * template["cost_pct"], 2), where budget_per_day is
\* budget_allocation / num_days if num_days > 0 else budget_allocation
TemplateCost(budget_allocation, num_days, cost_pct) ==
    Round(budget_allocation * cost_pct,
          IF num_days > 0 THEN num_days * 100 ELSE 100)

CostsOf(activities) == [i \in 1..Len(activities) |-> activities[i].cost]

\* mutant: the check-in appended after the templates on day 1
FallbackActivitiesCheckInLast(request, num_days, day) ==
    [i \in 1..3 |->
        [name |-> TemplatesFor(request.trip_type)[i].name,
         cost |-> TemplateCost(request.budget_allocation, num_days,
                               TemplatesFor(request.trip_type)[i].cost_pct)]]
    \o (IF day = 1 THEN <<CheckIn>> ELSE << >>)

\* the activities of one day of the fallback itinerary
FallbackActivities(request, num_days, day) ==
    (IF day = 1 THEN <<CheckIn>> ELSE << >>)
    \o [i \in 1..3 |->
          [name |-> TemplatesFor(request.trip_type)[i].name,
           cost |-> TemplateCost(request.budget_allocation, num_days,
                                 TemplatesFor(request.trip_type)[i].cost_pct)]]

\* for day in range(1, num_days + 1): no day at all when num_days <= 0
generate_fallback_itinerary(request, num_days) ==
    [day \in 1..num_days |->
        LET activities == FallbackActivities(request, num_days, day)
        IN  [day |-> day, activities |-> activities,
             total_cost |-> SumSeq(CostsOf(activities))]]

(***************************************************************************)
(* The AI service as _generate_ai_itinerary meets it.  One behaviour is    *)
(* how many calls in a row fail with a rate-limit error (429) and what the *)
(* first other call does: raise another error, or answer.  An answer is    *)
(* told apart by the first check of the method that it fails, and a text   *)
(* by the stage of the parser whose json.loads succeeds and the value it   *)
(* yields.                                                                 *)
(***************************************************************************)
\* the AI may answer with up to MaxAiDays day objects
MaxAiDays == 3

max_retries == 3

retry_delay == 2

\* the stage whose json.loads yields days_data: the first try, the retry
\* after the repairs, or the parse of the days the day_pattern salvaged
ParseStages == {"first_try", "repaired", "salvaged"}

\* days_data as a list of day objects: TRUE is a day object with "day",
\* "activities" and the three required keys of each activity, FALSE one
\* the conversion to DayPlan raises on
AiDayLists == UNION {[1..n -> BOOLEAN] : n \in 0..MaxAiDays}

AiReplies ==
    [kind : {"error", "no_candidates", "no_parts", "empty_text",
             "unparseable", "not_a_list"}]
    \cup {r \in [kind : {"days"}, stage : ParseStages, days_data : AiDayLists] :
            \* `if clean_days:` -- no salvaged day, no salvaged list
            r.stage = "salvaged" => Len(r.days_data) > 0}

AiBehaviours == [rate_limited : 0..max_retries, reply : AiReplies]

\* the activities of a well-formed day object (those of example_json)
AiActivities ==
    <<[name |-> "Hotel Check-in", cost |-> 0],
      [name |-> "Dinner at Natraj Dining Hall", cost |-> 90000]>>

\* mutant: a wait after the last attempt too
SleepsAfterEveryAttempt(rate_limited) ==
    [k \in 1..Min(rate_limited, max_retries) |-> retry_delay * 2 ^ (k - 1)]

\* time.sleep(retry_delay * (2 ** attempt)) after each rate-limited attempt
\* but the last
Sleeps(rate_limited) ==
    [k \in 1..Min(rate_limited, max_retries - 1) |-> retry_delay * 2 ^ (k - 1)]

Fallback(request, num_days, calls, sleeps) ==
    [path |-> "fallback", itinerary |-> generate_fallback_itinerary(request, num_days),
     calls |-> calls, sleeps |-> sleeps]

\* _generate_ai_itinerary: every exception raised after the prompt is built
\* is caught and answered with the fallback itinerary
generate_ai_itinerary(request, num_days, ai) ==
    LET calls == Min(ai.rate_limited + 1, max_retries)
        sleeps == Sleeps(ai.rate_limited)
        reply == ai.reply
    IN  IF ai.rate_limited >= max_retries
        THEN \* the last attempt was rate-limited too
             Fallback(request, num_days, calls, sleeps)
        ELSE IF reply.kind # "days"
        THEN \* re-raised error, failed check, or no stage parses a list
             Fallback(request, num_days, calls, sleeps)
        ELSE IF \E i \in 1..Len(reply.days_data) : ~reply.days_data[i]
        THEN \* KeyError / TypeError / ValidationError in the conversion
             Fallback(request, num_days, calls, sleeps)
        ELSE [path |-> reply.stage,
              itinerary |->
                  [i \in 1..Len(reply.days_data) |->
                      [day |-> i, activities |-> AiActivities,
                       total_cost |-> SumSeq(CostsOf(AiActivities))]],
              calls |-> calls, sleeps |-> sleeps]

\* sum(sum(activity.cost for activity in day.activities) for day in itinerary)
TotalCost(itinerary) ==
    SumSeq([i \in 1..Len(itinerary) |-> SumSeq(CostsOf(itinerary[i].activities))])

\* ActivitiesAgent.generate_itinerary.  The response carries, beside the
\* fields of ItineraryResponse, the path that produced the itinerary.
ActivitiesAgent_generate_itinerary(request, ai) ==
    LET days == request.end_date - request.start_date
        generated == generate_ai_itinerary(request, days, ai)
    IN  [agent |-> "activities_agent", raised |-> FALSE, days |-> days,
         path |-> generated.path,
         itinerary |-> generated.itinerary,
         total_activities_cost |-> TotalCost(generated.itinerary),
         ai_calls |-> generated.calls, sleeps |-> generated.sleeps]

(***************************************************************************)
(* The itinerary specification: the activities agent applied to every      *)
(* request of a bounded input space, under every behaviour of the AI.      *)
(***************************************************************************)
\* activity budgets of 0..MaxItineraryBudget paise are all tried
MaxItineraryBudget == 12

\* ... and one of 4000 rupees
ItineraryBudgets == 0..MaxItineraryBudget \cup {400000}

InitItinerary ==
    /\ pipeline_context = EmptyContext
    /\ agent_calls = << >>
    /\ last = [layer |-> "none", op |-> "__init__", request |-> << >>,
               coordinator |-> "returned", status |-> "n/a", primed_before |-> FALSE]
    /\ primed = FALSE
    /\ alloc_request = << >>
    /\ alloc_result = NoResult
    /\ agent_request \in ActivityRequests(ItineraryBudgets)
    /\ agent_response = NoResult
    /\ transport_search = NoSearch
    /\ irctc_client = NewIRCTCClient
    /\ sessions = NoSessions

\* activities_agent.generate_itinerary(request), called once with the request
\* under test; `ai` is what the AI service did during the call
AgentGenerateItinerary ==
    /\ agent_response = NoResult
    /\ \E ai \in AiBehaviours :
          agent_response' =
              [ai |-> ai] @@ ActivitiesAgent_generate_itinerary(agent_request, ai)
    /\ UNCHANGED <<service_vars, agent_request, transport_search, coord_vars, alloc_vars>>

NextItinerary == AgentGenerateItinerary

SpecItinerary == InitItinerary /\ [][NextItinerary]_vars

(***************************************************************************)
(* Properties of the itinerary specification.                              *)
(***************************************************************************)
ItineraryReturned == agent_response.agent = "activities_agent"

DayTotals(itinerary) == [d \in 1..Len(itinerary) |-> itinerary[d].total_cost]

\* C12: for every request with end_date > start_date the itinerary returned
\* has exactly (end_date - start_date).days day plans, whether it came from
\* the AI (first parse, repaired or salvaged) or from the fallback.
C12_ExactlyRequestedDays ==
    (ItineraryReturned /\ agent_request.end_date > agent_request.start_date)
        => Len(agent_response.itinerary)
               = agent_request.end_date - agent_request.start_date

\* C13: in a fallback itinerary of at least one day, the first activity of
\* day 1 is the hotel check-in with cost 0, every day's total_cost is the sum
\* of its activities' costs, and total_activities_cost is the sum of the day
\* totals.
C13_FallbackItineraryShape ==
    (ItineraryReturned /\ agent_response.path = "fallback"
                       /\ Len(agent_response.itinerary) >= 1)
        => LET itinerary == agent_response.itinerary
           IN  /\ itinerary[1].activities[1].name = "Hotel Check-in & Relaxation"
               /\ itinerary[1].activities[1].cost = 0
               /\ \A d \in 1..Len(itinerary) :
                     itinerary[d].total_cost
                         = SumSeq(CostsOf(itinerary[d].activities))
               /\ agent_response.total_activities_cost
                      = SumSeq(DayTotals(itinerary))

\* a fallback itinerary of MaxDay days that costs something, reached after
\* the AI was rate-limited on every attempt
C13_Witness ==
    /\ ItineraryReturned
    /\ agent_response.path = "fallback"
    /\ agent_response.ai.rate_limited = max_retries
    /\ Len(agent_response.itinerary) = MaxDay
    /\ agent_response.total_activities_cost > 0

\* C16: the total cost of a fallback itinerary never exceeds the activities
\* budget it was given, for every trip type (known or not), every budget >= 0
\* and every day count >= 1.
C16_FallbackWithinBudget ==
    (ItineraryReturned /\ agent_response.path = "fallback"
                       /\ agent_response.days >= 1)
        => agent_response.total_activities_cost <= agent_request.budget_allocation

(***************************************************************************)
(* HotelAgent (hotel_agent.py)                                             *)
(* Prices are rational numbers of paise, kept as a numerator over the      *)
(* common denominator PriceDen(den) until the rounding makes them whole.   *)
(* A hotel is its id (the position it was generated at) and its price.     *)
(***************************************************************************)
Max(a, b) == IF a >= b THEN a ELSE b

\* random.uniform(-0.08, 0.08) in hundredths and random.randint(-50, 150) in
\* rupees: the two ends of each range together, and no jitter at all
Jitters ==
    {[uniform |-> -8, randint |-> -50],
     [uniform |-> 0, randint |-> 0],
     [uniform |-> 8, randint |-> 150]}

\* the jitter of each of n hotels: one jitter up to some position and
\* another one from there on
JitterSchedules(n) ==
    {[i \in 0..(n - 1) |-> IF i < k THEN a ELSE b] :
        k \in 0..n, a \in Jitters, b \in Jitters}

\* the same jitter for every hotel
ConstantSchedules(n) == {[i \in 0..(n - 1) |-> j] : j \in Jitters}

\* hotels_to_generate = min(10, len(all_hotels)), and every pool of
\* _generate_fallback_hotels holds more than 10 hotels
FallbackHotelCount == 10

\* max_price_per_night when request.max_price is falsy, in paise
FallbackDefaultMaxPrice == 500000

RealDefaultMaxPrice == 800000

\* the threshold between rounding to 10 and to 5 rupees, in paise
RoundingThreshold == 300000

RECURSIVE GCD(_, _)
GCD(a, b) == IF b = 0 THEN a ELSE GCD(b, a % b)

\* target_price = min_price + position * (max_price - min_price) with
\* min_price = max_price * 0.25 and position = i / den is
\* max_price * (den + 3 * i) / (4 * den); TargetNum / TargetDen is that
\* fraction of max_price in lowest terms
TargetNum(i, den) == (den + 3 * i) \div GCD(den + 3 * i, 4 * den)

TargetDen(i, den) == (4 * den) \div GCD(den + 3 * i, 4 * den)

\* denominator of the price of hotel i: the jitter is in hundredths
PriceDen(i, den) == 100 * TargetDen(i, den)

\* target_price + unique_variance + randint, as a numerator over PriceDen
JitteredPrice(max_price, i, den, jitter) ==
    max_price * TargetNum(i, den) * (100 + jitter.uniform)
    + 100 * jitter.randint * PriceDen(i, den)

\* price = max(min_price, min(price, max_price)), then round(price / 10) * 10
\* above 3000 rupees and round(price / 5) * 5 otherwise; round(price, 0)
\* changes nothing after that
RoundedPrice(max_price, i, den, jitter) ==
    LET D == PriceDen(i, den)
        lo == max_price * (D \div 4)
        hi == max_price * D
        clamped == Max(lo, Min(JitteredPrice(max_price, i, den, jitter), hi))
    IN  IF clamped > RoundingThreshold * D
        THEN Round(clamped, 1000 * D) * 1000
        ELSE Round(clamped, 500 * D) * 500

\* hotels.sort(key=lambda x: x.price): a stable sort, so hotels of the same
\* price stay in the order they were generated in
CheaperFirst(h1, h2) ==
    h1.price < h2.price \/ (h1.price = h2.price /\ h1.id < h2.id)

\* the hotels of one run of the pricing loop: for i in range(n), with
\* position = i / max(n - 1, 1)
PricedHotels(max_price, n, schedule) ==
    SortSeq([k \in 1..n |->
                [id |-> k,
                 price |-> RoundedPrice(max_price, k - 1, Max(n - 1, 1),
                                        schedule[k - 1])]],
            CheaperFirst)

generate_fallback_hotels(max_price, schedule) ==
    PricedHotels(max_price, FallbackHotelCount, schedule)

\* _generate_pricing_for_real_hotels: `valid` is the number of hotels left
\* by the filter on test names, at most the 10 asked of the directory
generate_pricing_for_real_hotels(valid, max_price_per_night, schedule) ==
    IF valid = 0 THEN << >>
    ELSE PricedHotels(max_price_per_night, Min(10, valid), schedule)

(***************************************************************************)
(* The hotel directory (Amadeus) as search_hotels meets it: the lookup     *)
(* raises (ImportError included), the destination has no city code or the  *)
(* service no client, the directory is empty, an entry lacks its name, or  *)
(* the directory lists hotels of which `valid` pass the test-name filter.  *)
(***************************************************************************)
\* the directory is tried with 0..MaxRealHotels valid hotels
MaxRealHotels == 2

DirectoryBehaviours ==
    [kind : {"error", "no_city_code", "empty", "malformed"}]
    \cup [kind : {"hotels"}, valid : 0..MaxRealHotels]

\* HotelAgent.search_hotels.  The response carries, beside the hotels, the
\* path that produced them and the ceiling the prices were generated under.
HotelAgent_search_hotels(request, directory, schedules) ==
    LET real_ceiling == IF request.max_price # 0 THEN request.max_price
                        ELSE RealDefaultMaxPrice
        fallback_ceiling == IF request.max_price # 0 THEN request.max_price
                            ELSE FallbackDefaultMaxPrice
    IN  IF directory.kind = "hotels" /\ directory.valid > 0
        THEN [agent |-> "hotel_agent", raised |-> FALSE, path |-> "real_names",
              max_price_per_night |-> real_ceiling,
              hotels |-> generate_pricing_for_real_hotels(
                             directory.valid, real_ceiling, schedules.real)]
        ELSE \* every exception of the primary path is caught, and an empty
             \* priced list falls through
             [agent |-> "hotel_agent", raised |-> FALSE, path |-> "fallback",
              max_price_per_night |-> fallback_ceiling,
              hotels |-> generate_fallback_hotels(fallback_ceiling,
                                                  schedules.fallback)]

\* the jitter drawn by the two pricing loops
Schedules(real, fallback) == [real : real, fallback : fallback]

(***************************************************************************)
(* The hotel specification: the hotel agent applied to every ceiling of a  *)
(* bounded set, under every behaviour of the directory and of the jitter.  *)
(***************************************************************************)
\* max_price in paise: 6000, 6007, 9000, 2500, 98 and 10 rupees, and 0
HotelCeilings == {600000, 600700, 900000, 250000, 9800, 1000, 0}

HotelAgentRequests == [max_price : HotelCeilings]

InitHotels ==
    /\ pipeline_context = EmptyContext
    /\ agent_calls = << >>
    /\ last = [layer |-> "none", op |-> "__init__", request |-> << >>,
               coordinator |-> "returned", status |-> "n/a", primed_before |-> FALSE]
    /\ primed = FALSE
    /\ alloc_request = << >>
    /\ alloc_result = NoResult
    /\ agent_request \in HotelAgentRequests
    /\ agent_response = NoResult
    /\ transport_search = NoSearch
    /\ irctc_client = NewIRCTCClient
    /\ sessions = NoSessions

\* hotel_agent.search_hotels(request), called once with the request under test
AgentSearchHotels ==
    /\ agent_response = NoResult
    /\ \E directory \in DirectoryBehaviours :
       \E schedules \in Schedules(
              JitterSchedules(IF directory.kind = "hotels"
                              THEN Min(10, directory.valid) ELSE 0),
              JitterSchedules(FallbackHotelCount)) :
          agent_response' =
              [directory |-> directory]
              @@ HotelAgent_search_hotels(agent_request, directory, schedules)
    /\ UNCHANGED <<service_vars, agent_request, transport_search, coord_vars, alloc_vars>>

NextHotels == AgentSearchHotels

SpecHotels == InitHotels /\ [][NextHotels]_vars

(***************************************************************************)
(* Properties of the hotel specification.                                  *)
(***************************************************************************)
HotelsReturned == agent_response.agent = "hotel_agent"

\* C14: for every ceiling C > 0, every price the fallback hotel generator
\* returns lies in [0.2 * C, 1.1 * C], and after sorting the prices are
\* pairwise distinct, whatever the jitter.
C14_FallbackPricesSpreadAndDistinct ==
    (HotelsReturned /\ agent_response.path = "fallback"
                    /\ agent_request.max_price > 0)
        => LET hotels == agent_response.hotels
               C == agent_request.max_price
           IN  /\ \A k \in 1..Len(hotels) :
                     /\ 10 * hotels[k].price >= 2 * C
                     /\ 10 * hotels[k].price <= 11 * C
               /\ \A k \in 1..Len(hotels), l \in 1..Len(hotels) :
                     k # l => hotels[k].price # hotels[l].price

(***************************************************************************)
(* TransportAgent (transport_agent.py): the four mode lookups.             *)
(* A lookup yields a TransportMode (its mode, whether its options are live *)
(* data or the static fallback, and their prices in paise), None, or an    *)
(* exception.                                                              *)
(***************************************************************************)
\* origin and destination as clients send them
Cities == {"Vellore", "chennai", "Mumbai", "pune"}

TransportRequests(budgets) ==
    [origin : Cities, destination : Cities, budget_allocation : budgets]

\* tuple(sorted([origin.lower(), destination.lower()])) as the pair it denotes
RouteKey(origin, destination) == {Lower(origin), Lower(destination)}

\* _estimate_distance: the rows of city_distances between the cities above,
\* and the default of 500 for every other route
estimate_distance(origin, destination) ==
    CASE RouteKey(origin, destination) = {"vellore", "chennai"} -> 140
      [] RouteKey(origin, destination) = {"mumbai", "pune"} -> 150
      [] RouteKey(origin, destination) = {"mumbai", "chennai"} -> 1330
      [] OTHER -> 500

\* no IATA code
NoCode == "None"

\* mutant: city_codes with an entry 'vellore': 'VLR'
get_city_code_with_vellore(city_name) ==
    CASE Lower(city_name) = "mumbai" -> "BOM"
      [] Lower(city_name) = "chennai" -> "MAA"
      [] Lower(city_name) = "pune" -> "PNQ"
      [] Lower(city_name) = "vellore" -> "VLR"
      [] OTHER -> NoCode

\* amadeus_service.get_city_code: city_codes.get(city_name.lower().strip())
get_city_code(city_name) ==
    CASE Lower(city_name) = "mumbai" -> "BOM"
      [] Lower(city_name) = "chennai" -> "MAA"
      [] Lower(city_name) = "pune" -> "PNQ"
      [] OTHER -> NoCode

None == [kind |-> "None"]

Raised == [kind |-> "raised"]

TransportMode(mode, source, prices) ==
    [kind |-> "mode", mode |-> mode, source |-> source, prices |-> prices]

\* prices an inventory or the AI may quote, in paise
QuotedPrices == <<450000, 120000>>

\* the flight inventory: the service has no client, the search raises,
\* no offer (or none that parses), or offers
FlightInventories == {"no_client", "error", "no_flights", "flights"}

\* _get_flight_options: real flights or None, never generated ones
get_flight_options(request, inventory) ==
    IF /\ get_city_code(request.origin) # NoCode
       /\ get_city_code(request.destination) # NoCode
       /\ inventory = "flights"
    THEN TransportMode("Flight", "live", QuotedPrices)
    ELSE None

\* the train sources: IRCTC (trains, none, error) and, behind it, the AI
\* of _get_fallback_train_options (options, none, or an error on every call)
TrainSources == [irctc : {"trains", "none", "error"},
                 ai : {"options", "no_options", "always_error"}]

\* the depth of self-calls at which the interpreter raises RecursionError
\* (sys.getrecursionlimit(), counted in frames of _get_fallback_train_options)
MaxRecursion == 4

\* _get_fallback_train_options at `depth` frames, after `calls` AI calls.
\* Its except clause answers every exception with a call of itself, so an
\* AI that fails every call is called again at every depth; the
\* RecursionError of the deepest call is raised inside the except clauses
\* of all the frames above it and leaves the outermost one.
RECURSIVE get_fallback_train_options(_, _, _)
get_fallback_train_options(ai, depth, calls) ==
    IF depth > MaxRecursion
    THEN [outcome |-> Raised, ai_calls |-> calls]
    ELSE CASE ai = "options" ->
                [outcome |-> TransportMode("Train", "live", QuotedPrices),
                 ai_calls |-> calls + 1]
           [] ai = "no_options" -> [outcome |-> None, ai_calls |-> calls + 1]
           [] OTHER -> get_fallback_train_options(ai, depth + 1, calls + 1)

\* _get_train_options with the AI calls it made.  Without trains the
\* fallback is called inside the try block (309), so an exception that
\* leaves it is answered by the except clause with one more call (313);
\* when get_trains raised, only the call of the except clause is made.
TrainLookup(request, sources) ==
    IF sources.irctc = "trains"
    THEN [outcome |-> TransportMode("Train", "live", QuotedPrices), ai_calls |-> 0]
    ELSE LET first == get_fallback_train_options(sources.ai, 1, 0)
         IN  IF sources.irctc = "none" /\ first.outcome = Raised
             THEN get_fallback_train_options(sources.ai, 1, first.ai_calls)
             ELSE first

\* _get_train_options
get_train_options(request, sources) == TrainLookup(request, sources).outcome

\* the AI of the bus and cab lookups
ModeAiReplies == {"options", "no_options", "no_text", "error"}

\* _get_fallback_bus_options: 1500, 1200 and 900 rupees
get_fallback_bus_options == TransportMode("Bus", "fallback", <<150000, 120000, 90000>>)

\* _get_fallback_cab_options: 8500, 7800 and 7000 rupees
get_fallback_cab_options == TransportMode("Cab", "fallback", <<850000, 780000, 700000>>)

\* _get_bus_options
get_bus_options(request, ai) ==
    CASE ai = "options" -> TransportMode("Bus", "live", QuotedPrices)
      [] ai = "no_options" -> None
      [] OTHER -> get_fallback_bus_options

\* _get_cab_options: a response without text raises at response.text.strip()
get_cab_options(request, ai) ==
    CASE ai = "options" -> TransportMode("Cab", "live", QuotedPrices)
      [] ai = "no_options" -> None
      [] OTHER -> get_fallback_cab_options

\* the four lookups search_transport submits, in the order it submits them
Lookups == <<"flights", "trains", "buses", "cabs">>

LookupNames == {Lookups[k] : k \in 1..Len(Lookups)}

\* what the outside world does to one search: one behaviour per lookup
TransportWorlds ==
    [flights : FlightInventories, trains : TrainSources,
     buses : ModeAiReplies, cabs : ModeAiReplies]

\* the outcome of one lookup
LookupOutcome(request, world, lookup) ==
    CASE lookup = "flights" -> get_flight_options(request, world.flights)
      [] lookup = "trains" -> get_train_options(request, world.trains)
      [] lookup = "buses" -> get_bus_options(request, world.buses)
      [] OTHER -> get_cab_options(request, world.cabs)

(***************************************************************************)
(* TransportAgent.search_transport: the fan-out.                           *)
(* The four lookups are submitted to a pool of four workers, so all run at *)
(* once.  as_completed hands over each future once it is done, in the      *)
(* order they get done, and ends when all four are; the `with` block then  *)
(* shuts the pool down.  Time is counted in ticks as long as the timeout   *)
(* of future.result.                                                       *)
(***************************************************************************)
\* time stops being counted after MaxTicks ticks
MaxTicks == 2

\* future.result(timeout=10): seconds, and the length of a tick
result_timeout == 10

\* mutant: the exception of a lookup is not caught and fails the search
collect_reraises(search, lookup) ==
    LET outcome == search.futures[lookup].outcome
    IN  [search EXCEPT
            !.futures[lookup].state = "collected",
            !.failed = @ \/ outcome.kind = "raised",
            !.transport_modes = IF outcome.kind = "mode" THEN Append(@, outcome)
                                ELSE @]

\* the body of the loop for a future as_completed hands over: the future is
\* done, so future.result(timeout=10) returns or raises at once;
\* `if result:` keeps a TransportMode and drops None; the except clause
\* logs the exception and goes on
collect(search, lookup) ==
    LET outcome == search.futures[lookup].outcome
    IN  [search EXCEPT
            !.futures[lookup].state = "collected",
            !.transport_modes = IF outcome.kind = "mode" THEN Append(@, outcome)
                                ELSE @]

\* the outcomes the world can give a lookup of this request
LookupOutcomes(request, lookup) ==
    CASE lookup = "flights" ->
            {get_flight_options(request, inventory) : inventory \in FlightInventories}
      [] lookup = "trains" ->
            {get_train_options(request, sources) : sources \in TrainSources}
      [] lookup = "buses" -> {get_bus_options(request, ai) : ai \in ModeAiReplies}
      [] OTHER -> {get_cab_options(request, ai) : ai \in ModeAiReplies}

\* the four executor.submit calls
SubmitLookups ==
    /\ transport_search.pc = "idle"
    /\ agent_response = NoResult
    /\ transport_search' =
           [pc |-> "collecting", now |-> 0, failed |-> FALSE,
            futures |-> [l \in LookupNames |-> [state |-> "running", outcome |-> None]],
            late |-> {}, transport_modes |-> << >>]
    /\ UNCHANGED <<service_vars, agent_request, agent_response, coord_vars, alloc_vars>>

\* a tick passes while some lookup is still running
Tick ==
    /\ transport_search.pc = "collecting"
    /\ transport_search.now < MaxTicks
    /\ \E l \in LookupNames : transport_search.futures[l].state = "running"
    /\ transport_search' = [transport_search EXCEPT !.now = @ + 1]
    /\ UNCHANGED <<service_vars, agent_request, agent_response, coord_vars, alloc_vars>>

\* a worker thread finishes its lookup; a lookup may also never finish
LookupCompletes ==
    /\ transport_search.pc = "collecting"
    /\ \E l \in LookupNames :
          /\ transport_search.futures[l].state = "running"
          /\ \E outcome \in LookupOutcomes(agent_request, l) :
                transport_search' =
                    [transport_search EXCEPT
                        !.futures[l] = [state |-> "done", outcome |-> outcome],
                        !.late = IF transport_search.now * result_timeout > result_timeout
                                 THEN @ \cup {l} ELSE @]
    /\ UNCHANGED <<service_vars, agent_request, agent_response, coord_vars, alloc_vars>>

\* one turn of the loop over as_completed
Collect ==
    /\ transport_search.pc = "collecting"
    /\ ~transport_search.failed
    /\ \E l \in LookupNames :
          /\ transport_search.futures[l].state = "done"
          /\ transport_search' = collect(transport_search, l)
    /\ UNCHANGED <<service_vars, agent_request, agent_response, coord_vars, alloc_vars>>

\* as_completed is exhausted once all four futures were handed over; the
\* pool shuts down, waiting for its (finished) workers, and the response is
\* built.  An exception that left the loop leaves the method the same way,
\* after the pool has waited for every worker.
ReturnModes ==
    /\ transport_search.pc = "collecting"
    /\ IF transport_search.failed
       THEN \A l \in LookupNames : transport_search.futures[l].state # "running"
       ELSE \A l \in LookupNames : transport_search.futures[l].state = "collected"
    /\ transport_search' = [transport_search EXCEPT !.pc = "returned"]
    /\ agent_response' =
           [agent |-> "transport_agent", raised |-> transport_search.failed,
            transport_modes |-> transport_search.transport_modes]
    /\ UNCHANGED <<service_vars, agent_request, coord_vars, alloc_vars>>

\* budget_allocation of the transport requests, in paise
TransportBudgets == {600000}

InitTransport ==
    /\ pipeline_context = EmptyContext
    /\ agent_calls = << >>
    /\ last = [layer |-> "none", op |-> "__init__", request |-> << >>,
               coordinator |-> "returned", status |-> "n/a", primed_before |-> FALSE]
    /\ primed = FALSE
    /\ alloc_request = << >>
    /\ alloc_result = NoResult
    /\ agent_request \in TransportRequests(TransportBudgets)
    /\ agent_response = NoResult
    /\ transport_search = NoSearch
    /\ irctc_client = NewIRCTCClient
    /\ sessions = NoSessions

NextTransport ==
    \/ SubmitLookups
    \/ Tick
    \/ LookupCompletes
    \/ Collect
    \/ ReturnModes

SpecTransport == InitTransport /\ [][NextTransport]_vars

(***************************************************************************)
(* Properties of the transport specification.                              *)
(***************************************************************************)
TransportReturned == agent_response.agent = "transport_agent"

\* how often a lookup's outcome stands in the response
Occurrences(outcome) ==
    Cardinality({k \in 1..Len(agent_response.transport_modes) :
                    agent_response.transport_modes[k] = outcome})

OutcomeOf(lookup) == transport_search.futures[lookup].outcome

C19_RaisingLookupOmitted ==
    (TransportReturned /\ \E l \in LookupNames : OutcomeOf(l).kind = "raised")
        => /\ ~agent_response.raised
           /\ Len(agent_response.transport_modes)
                  = Cardinality({l \in LookupNames : OutcomeOf(l).kind = "mode"})
           /\ \A l \in LookupNames :
                 OutcomeOf(l).kind = "mode" => Occurrences(OutcomeOf(l)) = 1

\* the train lookup raised and the three other lookups are in the response
C19_Witness ==
    /\ TransportReturned
    /\ OutcomeOf("trains").kind = "raised"
    /\ \A l \in LookupNames \ {"trains"} : OutcomeOf(l).kind = "mode"
    /\ Len(agent_response.transport_modes) = 3

\* C20: a lookup that is not done within the 10 seconds of its timeout is
\* left out of the response, which search_transport returns without waiting
\* for it.
C20_SlowLookupOmitted ==
    TransportReturned
        => \A l \in transport_search.late :
              OutcomeOf(l).kind = "mode" => Occurrences(OutcomeOf(l)) = 0

(***************************************************************************)
(* The planning specification: the coordinator with its agents behind it.  *)
(* process_budget primes the pipeline; each search clamps or overrides the *)
(* budget field of its request and hands the request to the agent, whose   *)
(* response it returns.                                                    *)
(***************************************************************************)
\* TransportAgent.search_transport when every lookup completes and
\* as_completed hands the futures over in `order`
TransportAgent_search_transport(request, world, order) ==
    [agent |-> "transport_agent", raised |-> FALSE,
     transport_modes |->
         SelectSeq([k \in 1..Len(order) |-> LookupOutcome(request, world, order[k])],
                   LAMBDA outcome : outcome.kind = "mode")]

\* the lookups done in the order submitted, and in the opposite order
CompletionOrders == {Lookups, [k \in 1..Len(Lookups) |-> Lookups[Len(Lookups) + 1 - k]]}

\* family and luxurious trips of MaxDay nights on 60000 and 100000 rupees,
\* and a family trip on 123.45 rupees
PlanningTrips ==
    {[trip_type |-> "family", start_date |-> [iso |-> TRUE, day |-> 0],
      end_date |-> [iso |-> TRUE, day |-> MaxDay], budget |-> 6000000],
     [trip_type |-> "LUXURIOUS", start_date |-> [iso |-> TRUE, day |-> 0],
      end_date |-> [iso |-> TRUE, day |-> MaxDay], budget |-> 10000000],
     [trip_type |-> "family", start_date |-> [iso |-> TRUE, day |-> 0],
      end_date |-> [iso |-> TRUE, day |-> MaxDay], budget |-> 12345]}

\* max_price of 9000 and of 98 rupees
PlanningHotelRequests == [max_price : {900000, 9800}]

PlanningDirectories ==
    {[kind |-> "error"], [kind |-> "hotels", valid |-> MaxRealHotels]}

PlanningItineraryRequests ==
    [trip_type : {"family"}, start_date : {0}, end_date : {0, MaxDay},
     budget_allocation : {400000}]

\* the AI fails every call, or answers at once with a list of well-formed
\* day objects that parses on the first try
PlanningAiBehaviours ==
    {ai \in AiBehaviours :
        /\ ai.rate_limited = 0
        /\ \/ ai.reply.kind = "error"
           \/ /\ ai.reply.kind = "days"
              /\ ai.reply.stage = "first_try"
              /\ \A i \in 1..Len(ai.reply.days_data) : ai.reply.days_data[i]}

PlanningTransportRequests ==
    [origin : {"Mumbai"}, destination : {"chennai"}, budget_allocation : {400000}]

\* every service down, or every service up
PlanningWorlds ==
    {w \in TransportWorlds :
        \/ /\ w.flights = "error"
           /\ w.trains = [irctc |-> "error", ai |-> "always_error"]
           /\ w.buses = "error"
           /\ w.cabs = "error"
        \/ /\ w.flights = "flights"
           /\ w.trains = [irctc |-> "trains", ai |-> "options"]
           /\ w.buses = "options"
           /\ w.cabs = "options"}

\* a coordinator search: `c` is what the coordinator method did, `response`
\* what the agent answered if the coordinator got as far as calling it
Planned(op, request, c, response) ==
    /\ pipeline_context' = c.context
    /\ agent_calls' = c.calls
    /\ last' = [layer |-> "coordinator", op |-> op, request |-> request,
                coordinator |-> c.outcome, status |-> "n/a",
                primed_before |-> primed]
    /\ primed' = primed
    /\ agent_request' = c.request
    /\ agent_response' = IF c.calls = << >> THEN NoResult ELSE response
    /\ UNCHANGED <<service_vars, transport_search, alloc_vars>>

PlanBudget ==
    \E trip_request \in PlanningTrips :
        Called("process_budget", trip_request,
               process_budget(pipeline_context, trip_request))

PlanHotels ==
    \E request \in PlanningHotelRequests, directory \in PlanningDirectories :
    \E schedules \in Schedules(ConstantSchedules(MaxRealHotels),
                               ConstantSchedules(FallbackHotelCount)) :
        LET forwarded == search_hotels(pipeline_context, request, TRUE).request
            response == HotelAgent_search_hotels(forwarded, directory, schedules)
        IN  Planned("search_hotels", request,
                    search_hotels(pipeline_context, request, ~response.raised),
                    response)

PlanTransport ==
    \E request \in PlanningTransportRequests, world \in PlanningWorlds,
       order \in CompletionOrders :
        LET forwarded == search_transport(pipeline_context, request, TRUE).request
            response == TransportAgent_search_transport(forwarded, world, order)
        IN  Planned("search_transport", request,
                    search_transport(pipeline_context, request, ~response.raised),
                    response)

\* mutant: an itinerary over the budget is cut down to nothing before it is
\* returned
returned_itinerary_trimmed(result, activities_budget) ==
    IF result.total_activities_cost > activities_budget
    THEN [result EXCEPT !.itinerary = << >>, !.total_activities_cost = 0]
    ELSE result

\* `if result.total_activities_cost > activities_budget:` logs a warning and
\* an info line; `return result` follows in either case
returned_itinerary(result, activities_budget) ==
    IF result.total_activities_cost > activities_budget
    THEN result
    ELSE result

PlanItinerary ==
    \E request \in PlanningItineraryRequests, ai \in PlanningAiBehaviours :
        LET forwarded == generate_itinerary(pipeline_context, request, TRUE).request
            result == [ai |-> ai] @@ ActivitiesAgent_generate_itinerary(forwarded, ai)
        IN  Planned("generate_itinerary", request,
                    generate_itinerary(pipeline_context, request, ~result.raised),
                    returned_itinerary(result,
                                       ActivitiesBudget(pipeline_context, request)))

NextPlanning ==
    \/ PlanBudget
    \/ PlanHotels
    \/ PlanTransport
    \/ PlanItinerary

SpecPlanning == Init /\ [][NextPlanning]_vars

(***************************************************************************)
(* Properties of the planning specification.                               *)
(***************************************************************************)
\* the last operation was this coordinator search, on a primed pipeline
PlannedAfterBudget(op) ==
    last.layer = "coordinator" /\ last.op = op /\ last.primed_before

\* C11: after process_budget, whatever the AI and the inventory services
\* do, coordinator.search_hotels and coordinator.generate_itinerary return
\* without raising; the hotel list is never empty, and the itinerary is not
\* empty when its request has end_date > start_date.
C11_SearchesAlwaysAnswer ==
    /\ PlannedAfterBudget("search_hotels")
          => /\ last.coordinator = "returned"
             /\ Len(agent_response.hotels) > 0
    /\ PlannedAfterBudget("generate_itinerary")
          => /\ last.coordinator = "returned"
             /\ agent_request.end_date > agent_request.start_date
                   => Len(agent_response.itinerary) > 0

\* C15: after process_budget, every hotel of the paths that generate the
\* prices costs no more than the clamped ceiling the coordinator forwarded
\* (so neither hotel_budget_per_night nor the requested max_price is
\* exceeded), the final rounding included.
C15_HotelPricesWithinCeiling ==
    PlannedAfterBudget("search_hotels")
        => \A k \in 1..Len(agent_response.hotels) :
              /\ agent_response.hotels[k].price <= agent_request.max_price
              /\ agent_response.hotels[k].price
                     <= pipeline_context.hotel_budget_per_night
              /\ agent_response.hotels[k].price <= last.request.max_price

\* C17: after process_budget, every option of a static fallback mode (bus,
\* cab) costs no more than the transport_budget the coordinator wrote into
\* the request.
C17_FallbackTransportWithinBudget ==
    PlannedAfterBudget("search_transport")
        => \A k \in 1..Len(agent_response.transport_modes) :
              LET mode == agent_response.transport_modes[k]
              IN  mode.source = "fallback"
                     => \A j \in 1..Len(mode.prices) :
                           /\ agent_request.budget_allocation
                                  = pipeline_context.transport_budget
                           /\ mode.prices[j] <= agent_request.budget_allocation

\* the itinerary the activities agent makes of the forwarded request under
\* the AI behaviour of the last generate_itinerary
AgentItinerary(request, response) ==
    [ai |-> response.ai] @@ ActivitiesAgent_generate_itinerary(request, response.ai)

C24_RateLimitedThriceThenFallback ==
    (ItineraryReturned /\ agent_response.ai.rate_limited >= max_retries)
        => /\ agent_response.ai_calls = 3
           /\ agent_response.sleeps = <<2, 4>>
           /\ agent_response.path = "fallback"
           /\ agent_response.itinerary
                  = generate_fallback_itinerary(agent_request, agent_response.days)

\* the AI rate-limited on every attempt of a one-day luxurious request
C24_Witness ==
    /\ ItineraryReturned
    /\ agent_response.ai.rate_limited = max_retries
    /\ agent_response.ai_calls = max_retries
    /\ Len(agent_response.sleeps) = max_retries - 1
    /\ agent_request.trip_type = "luxurious"
    /\ agent_response.days = 1
    /\ Len(agent_response.itinerary) = 1

(***************************************************************************)
(* The lookups of the transport agent one at a time: the train lookup with *)
(* the AI calls it makes, and the bus and cab lookups with the text the AI *)
(* answered.                                                               *)
(***************************************************************************)
\* the AI may answer with up to MaxOptions options
MaxOptions == 2

\* what the "price" of one option of the AI's JSON object is: a number, a
\* range such as "1200-1500" (the part before the dash is taken), a text
\* float() rejects (ValueError), or missing (KeyError)
OptionPrices == {"number", "range", "not_numeric", "no_price"}

OptionLists == UNION {[1..n -> OptionPrices] : n \in 0..MaxOptions}

\* what generate_content does in a bus or cab lookup: it raises, answers
\* without text, with a text json.loads rejects, or with a JSON object
\* whose "options" are these
ModeAiTexts ==
    [kind : {"error", "no_text", "not_json"}]
    \cup [kind : {"json"}, options : OptionLists]

\* the options the loop over data.get("options", []) appends: the others
\* are skipped by `except (ValueError, KeyError): continue`
ParsedOptions(options) ==
    SelectSeq(options, LAMBDA price : price \in {"number", "range"})

\* the reply as the lookup tells it apart; json.loads raising is caught by
\* the same except clause as generate_content raising
ModeAiReplyOf(reply) ==
    CASE reply.kind = "json" ->
            IF Len(ParsedOptions(reply.options)) > 0 THEN "options" ELSE "no_options"
      [] reply.kind = "no_text" -> "no_text"
      [] OTHER -> "error"

InitLookups ==
    /\ pipeline_context = EmptyContext
    /\ agent_calls = << >>
    /\ last = [layer |-> "none", op |-> "__init__", request |-> << >>,
               coordinator |-> "returned", status |-> "n/a", primed_before |-> FALSE]
    /\ primed = FALSE
    /\ alloc_request = << >>
    /\ alloc_result = NoResult
    /\ agent_request \in TransportRequests(TransportBudgets)
    /\ agent_response = NoResult
    /\ transport_search = NoSearch
    /\ irctc_client = NewIRCTCClient
    /\ sessions = NoSessions

\* one lookup of the request under test, done once
Looked(lookup, world, found) ==
    /\ agent_response = NoResult
    /\ agent_response' = [agent |-> "transport_agent", lookup |-> lookup,
                          world |-> world, outcome |-> found.outcome,
                          ai_calls |-> found.ai_calls]
    /\ UNCHANGED <<service_vars, agent_request, transport_search, coord_vars, alloc_vars>>

\* transport_agent._get_train_options(request)
LookupTrains ==
    \E sources \in TrainSources :
        Looked("trains", sources, TrainLookup(agent_request, sources))

\* transport_agent._get_bus_options(request)
LookupBuses ==
    \E reply \in ModeAiTexts :
        Looked("buses", reply,
               [outcome |-> get_bus_options(agent_request, ModeAiReplyOf(reply)),
                ai_calls |-> 1])

\* transport_agent._get_cab_options(request)
LookupCabs ==
    \E reply \in ModeAiTexts :
        Looked("cabs", reply,
               [outcome |-> get_cab_options(agent_request, ModeAiReplyOf(reply)),
                ai_calls |-> 1])

NextLookups ==
    \/ LookupTrains
    \/ LookupBuses
    \/ LookupCabs

SpecLookups == InitLookups /\ [][NextLookups]_vars

(***************************************************************************)
(* Properties of the lookups.                                              *)
(***************************************************************************)
LookedUp(lookup) ==
    agent_response.agent = "transport_agent" /\ agent_response.lookup = lookup

\* C25: when the rail data source yields no usable trains and every AI call
\* fails, the train lookup makes a bounded number of AI calls and then
\* terminates by returning a mode or None: it stops by itself, below the
\* depth at which the interpreter stops it.
C25_TrainFallbackTerminates ==
    (/\ LookedUp("trains")
     /\ agent_response.world.irctc # "trains"
     /\ agent_response.world.ai = "always_error")
        => /\ agent_response.outcome.kind \in {"mode", "None"}
           /\ agent_response.ai_calls < MaxRecursion

\* C26: when the AI returns a well-formed bus (or cab) response whose
\* options list is empty or has no option with a numeric price, the lookup
\* answers with the static fallback options of its mode.
C26_EmptyOptionsFallThrough ==
    (/\ LookedUp("buses") \/ LookedUp("cabs")
     /\ agent_response.world.kind = "json"
     /\ Len(ParsedOptions(agent_response.world.options)) = 0)
        => /\ agent_response.outcome.kind = "mode"
           /\ agent_response.outcome.source = "fallback"

(***************************************************************************)
(* IRCTCClient.search_trains (irctc_api.py) called from several threads.   *)
(* The client is a module-level object and its cache a plain dict; nothing *)
(* in the method takes a lock.  A call is followed in three steps: the     *)
(* cache check, the answer of the API, the assignment to the cache.        *)
(***************************************************************************)
Threads == {"t1", "t2"}

\* each thread calls search_trains at most MaxSearches times
MaxSearches == 2

\* cache_key = f"{from_station}_{to_station}_{date_str}"
CacheKeys == {"VLR_MAS_2025-01-10", "NDLS_BCT_2025-01-10"}

\* what _parse_train_response makes of a 200 answer: train numbers
TrainLists == {<< >>, <<"12007">>, <<"12007", "12639">>}

\* what requests.get does: it raises, or answers with a status; a 200 answer
\* carries 'errors' or the trains
ApiResponses ==
    [status : {"exception", "429", "403", "500"}]
    \cup [status : {"200"}, errors : {TRUE}]
    \cup [status : {"200"}, errors : {FALSE}, trains : TrainLists]

\* _get_fallback_trains
FallbackTrains == <<"fallback">>

NotCalling == [pc |-> "idle", searches |-> 0]

\* self._cache[cache_key] = trains
store(cache, cache_key, trains) == (cache_key :> trains) @@ cache

InitCache ==
    /\ pipeline_context = EmptyContext
    /\ agent_calls = << >>
    /\ last = [layer |-> "none", op |-> "__init__", request |-> << >>,
               coordinator |-> "returned", status |-> "n/a", primed_before |-> FALSE]
    /\ primed = FALSE
    /\ alloc_request = << >>
    /\ alloc_result = NoResult
    /\ agent_request = << >>
    /\ agent_response = NoResult
    /\ transport_search = NoSearch
    /\ \E api_key \in BOOLEAN :
          irctc_client = [cache |-> << >>, api_key |-> api_key,
                          calls |-> [t \in Threads |-> NotCalling]]
    /\ sessions = NoSessions

CacheFrame ==
    UNCHANGED <<coord_vars, alloc_vars, agent_vars, sessions>>

\* the call up to the API request: a cached entry is returned, a client
\* without key returns the fallback trains
CheckCache(t) ==
    /\ irctc_client.calls[t].pc = "idle"
    /\ irctc_client.calls[t].searches < MaxSearches
    /\ \E cache_key \in CacheKeys :
          LET searches == irctc_client.calls[t].searches + 1
          IN  irctc_client' =
                 [irctc_client EXCEPT !.calls[t] =
                     IF cache_key \in DOMAIN irctc_client.cache
                     THEN [pc |-> "idle", searches |-> searches,
                           cache_key |-> cache_key, source |-> "cache",
                           trains |-> irctc_client.cache[cache_key]]
                     ELSE IF ~irctc_client.api_key
                     THEN [pc |-> "idle", searches |-> searches,
                           cache_key |-> cache_key, source |-> "fallback",
                           trains |-> FallbackTrains]
                     ELSE [pc |-> "requesting", searches |-> searches,
                           cache_key |-> cache_key]]
    /\ CacheFrame

\* requests.get returns or raises; only a 200 answer without 'errors' is
\* parsed, every other one is answered with the fallback trains
ApiAnswers(t) ==
    /\ irctc_client.calls[t].pc = "requesting"
    /\ \E response \in ApiResponses :
          irctc_client' =
             [irctc_client EXCEPT !.calls[t] =
                 IF response.status = "200" /\ ~response.errors
                 THEN [@ EXCEPT !.pc = "parsed"]
                          @@ [source |-> "api", trains |-> response.trains]
                 ELSE [@ EXCEPT !.pc = "idle"]
                          @@ [source |-> "fallback", trains |-> FallbackTrains]]
    /\ CacheFrame

\* self._cache[cache_key] = trains; return trains
CacheResult(t) ==
    /\ irctc_client.calls[t].pc = "parsed"
    /\ irctc_client' =
          [irctc_client EXCEPT
              !.cache = store(@, irctc_client.calls[t].cache_key,
                              irctc_client.calls[t].trains),
              !.calls[t].pc = "idle"]
    /\ CacheFrame

NextCache ==
    \E t \in Threads :
        \/ CheckCache(t)
        \/ ApiAnswers(t)
        \/ CacheResult(t)

SpecCache == InitCache /\ [][NextCache]_vars

\* C29: an entry of the rail-data cache, once inserted for a key, is never
\* overwritten or removed, also when several search_trains calls for the
\* same key run at once; and an entry is only inserted from a successful
\* API response.
C29_CacheEntriesWriteOnce ==
    [][/\ \A k \in DOMAIN irctc_client.cache :
             /\ k \in DOMAIN irctc_client.cache'
             /\ irctc_client.cache'[k] = irctc_client.cache[k]
       /\ \A k \in DOMAIN irctc_client.cache' \ DOMAIN irctc_client.cache :
             \E t \in Threads :
                /\ irctc_client.calls[t].pc = "parsed"
                /\ irctc_client.calls[t].source = "api"
                /\ irctc_client.calls[t].cache_key = k
                /\ irctc_client.cache'[k] = irctc_client.calls[t].trains]_vars

(***************************************************************************)
(* The HTTP service with several clients.  main.py imports the one         *)
(* agent_coordinator the module coordinator.py creates, and every request  *)
(* of every client is served through it; the requests carry no session.    *)
(***************************************************************************)
Clients == {"alice", "bob"}

\* a request of `client` served by an endpoint; `budgets` is each client's
\* latest budget request after it
ServedTo(client, budgets, op, request, e) ==
    /\ pipeline_context' = e.context
    /\ agent_calls' = e.calls
    /\ last' = [layer |-> "http", op |-> op, request |-> request,
                coordinator |-> e.coordinator, status |-> e.status,
                primed_before |-> primed]
    /\ primed' = IF op = "process_budget" /\ e.coordinator = "returned" THEN TRUE
                 ELSE primed
    /\ sessions' = [client |-> client, budgets |-> budgets]
    /\ UNCHANGED <<irctc_client, alloc_vars, agent_vars>>

\* POST /api/budget/analyze sent by a client
ClientPostsBudget(client) ==
    \E body \in PlanningTrips :
        ServedTo(client, (client :> body) @@ sessions.budgets,
                 "process_budget", body, analyze_budget(pipeline_context, body))

\* POST /api/hotels/search sent by a client
ClientSearchesHotels(client) ==
    \E request \in HotelSearchRequests, agent_ok \in BOOLEAN, agent_ok2 \in BOOLEAN :
        ServedTo(client, sessions.budgets, "search_hotels", request,
                 search_hotels_endpoint(pipeline_context, request, agent_ok, agent_ok2))

NextClients ==
    \E client \in Clients :
        \/ ClientPostsBudget(client)
        \/ ClientSearchesHotels(client)

SpecClients == Init /\ [][NextClients]_vars

\* the hotel ceiling of the client's own latest budget request
OwnCeiling(client) ==
    allocate_budget(sessions.budgets[client]).pipeline_data.hotel_budget_per_night

\* C30: the ceiling used to clamp a client's hotel search is the one derived
\* from that same client's most recent budget request, even when another
\* client's budget request was processed in between.
C30_CeilingFromOwnBudget ==
    (/\ last.layer = "http"
     /\ last.op = "search_hotels"
     /\ sessions.client \in DOMAIN sessions.budgets)
        => agent_calls[1].budget
               = Min(last.request.max_price, OwnCeiling(sessions.client))

(***************************************************************************)
(* The text of an AI answer and the parser of _generate_ai_itinerary       *)
(* (activities_agent.py 157-300).                                          *)
(* A text is a sequence of tokens: the punctuation of JSON, the quote, a   *)
(* digit, a run of whitespace, the code fence, and words (a key name or a  *)
(* piece of a string value).  A word stands for its characters, none of    *)
(* which is a quote, a bracket, a brace, a comma or a colon.               *)
(***************************************************************************)
\* the token of the double quote
Q == "dq"

WS == " "

Digit == "1"

\* the token of the three backticks of a code fence
Fence == "fence"

\* F applied to the value of e; e is evaluated once, as an assignment does
Bind(e, F(_)) == CHOOSE r \in {F(x) : x \in {e}} : TRUE

\* the index of the first token at or after i that is not whitespace
\* (Len(c) + 1 if there is none)
RECURSIVE SkipWs(_, _)
SkipWs(c, i) == IF i <= Len(c) /\ c[i] = WS THEN SkipWs(c, i + 1) ELSE i

\* the index of the first token at or after i that is not a digit
RECURSIVE SkipDigits(_, _)
SkipDigits(c, i) == IF i <= Len(c) /\ c[i] = Digit THEN SkipDigits(c, i + 1) ELSE i

\* the smallest and the largest of a set of indexes, or 0
First(found) == IF found = {} THEN 0 ELSE CHOOSE j \in found : \A k \in found : j <= k

Last(found) == IF found = {} THEN 0 ELSE CHOOSE j \in found : \A k \in found : j >= k

\* the index of the first token at or after i that is in `tokens`, or 0
\* (looked for sixteen tokens at a time)
RECURSIVE Find(_, _, _)
Find(c, i, tokens) ==
    IF i > Len(c) THEN 0
    ELSE Bind({j \in i..Min(i + 15, Len(c)) : c[j] \in tokens},
              LAMBDA found : IF found = {} THEN Find(c, i + 16, tokens)
                             ELSE First(found))

\* the index of the last token that is in `tokens`, or 0
RFind(c, tokens) == Bind({j \in 1..Len(c) : c[j] \in tokens}, Last)

\* content.count(token)
Count(c, token) == Cardinality({j \in 1..Len(c) : c[j] = token})

(***************************************************************************)
(* json.loads on a text.  A parsed value is tagged with its type: a list   *)
(* holds its elements, a dict its members in the order read (a later       *)
(* member of the same key wins), a str its tokens, a number its digits.    *)
(***************************************************************************)
Failed == [ok |-> FALSE]

Parsed(value, next) == [ok |-> TRUE, v |-> value, next |-> next]

RECURSIVE ParseValue(_, _)
RECURSIVE ParseElements(_, _, _)
RECURSIVE ParseMembers(_, _, _)

\* the value that starts at or after position i
ParseValue(c, i) ==
    Bind(SkipWs(c, i), LAMBDA j :
        IF j > Len(c) THEN Failed
        ELSE CASE c[j] = "[" ->
                    Bind(SkipWs(c, j + 1), LAMBDA k :
                        IF k <= Len(c) /\ c[k] = "]"
                        THEN Parsed([t |-> "list", v |-> << >>], k + 1)
                        ELSE ParseElements(c, j + 1, << >>))
               [] c[j] = "{" ->
                    Bind(SkipWs(c, j + 1), LAMBDA k :
                        IF k <= Len(c) /\ c[k] = "}"
                        THEN Parsed([t |-> "dict", v |-> << >>], k + 1)
                        ELSE ParseMembers(c, j + 1, << >>))
               [] c[j] = Q ->
                    Bind(Find(c, j + 1, {Q}), LAMBDA e :
                        IF e = 0 THEN Failed
                        ELSE Parsed([t |-> "str", v |-> SubSeq(c, j + 1, e - 1)], e + 1))
               [] c[j] = Digit ->
                    Bind(SkipDigits(c, j), LAMBDA end :
                        Parsed([t |-> "number", v |-> SubSeq(c, j, end - 1)], end))
               [] OTHER -> Failed)

\* the elements of a list after its "[" or after a comma
ParseElements(c, i, acc) ==
    Bind(ParseValue(c, i), LAMBDA element :
        IF ~element.ok THEN Failed
        ELSE Bind(SkipWs(c, element.next), LAMBDA j :
                 IF j > Len(c) THEN Failed
                 ELSE IF c[j] = ","
                 THEN ParseElements(c, j + 1, Append(acc, element.v))
                 ELSE IF c[j] = "]"
                 THEN Parsed([t |-> "list", v |-> Append(acc, element.v)], j + 1)
                 ELSE Failed))

\* the member of a dict that follows its key, and the members after it
ParseMember(c, key, acc) ==
    Bind(SkipWs(c, key.next), LAMBDA colon :
        IF colon > Len(c) \/ c[colon] # ":" THEN Failed
        ELSE Bind(ParseValue(c, colon + 1), LAMBDA member :
                 IF ~member.ok THEN Failed
                 ELSE Bind(SkipWs(c, member.next), LAMBDA k :
                          IF k > Len(c) THEN Failed
                          ELSE IF c[k] = ","
                          THEN ParseMembers(c, k + 1,
                                   Append(acc, [key |-> key.v.v, value |-> member.v]))
                          ELSE IF c[k] = "}"
                          THEN Parsed([t |-> "dict",
                                       v |-> Append(acc, [key |-> key.v.v,
                                                          value |-> member.v])],
                                      k + 1)
                          ELSE Failed)))

\* the members of a dict after its "{" or after a comma
ParseMembers(c, i, acc) ==
    Bind(SkipWs(c, i), LAMBDA j :
        IF j > Len(c) \/ c[j] # Q THEN Failed
        ELSE Bind(ParseValue(c, j), LAMBDA key :
                 IF ~key.ok THEN Failed ELSE ParseMember(c, key, acc)))

\* json.loads(content): a JSONDecodeError when no value can be read or
\* something other than whitespace follows it
json_loads(content) ==
    Bind(content, LAMBDA c :
        Bind(ParseValue(c, 1), LAMBDA value :
            IF value.ok /\ SkipWs(c, value.next) > Len(c)
            THEN [ok |-> TRUE, v |-> value.v]
            ELSE Failed))

\* key in dict
HasKey(dict, key) == \E k \in 1..Len(dict.v) : dict.v[k].key = <<key>>

\* dict[key]
Item(dict, key) ==
    dict.v[Last({k \in 1..Len(dict.v) : dict.v[k].key = <<key>>})].value

(***************************************************************************)
(* The steps between the text and days_data.                               *)
(***************************************************************************)
\* content.strip()
Strip(content) ==
    Bind(content, LAMBDA c :
        Bind({j \in 1..Len(c) : c[j] # WS}, LAMBDA kept :
            IF kept = {} THEN << >> ELSE SubSeq(c, First(kept), Last(kept))))

\* a text in a code fence: the part between the first two fences, without
\* a leading "json"
StripFence(content) ==
    Bind(content, LAMBDA c :
        IF Len(c) > 0 /\ c[1] = Fence
        THEN Bind(Find(c, 2, {Fence}), LAMBDA close :
                 Bind(IF close = 0 THEN Tail(c) ELSE SubSeq(c, 2, close - 1),
                      LAMBDA part : IF Len(part) > 0 /\ part[1] = "json"
                                    THEN Tail(part) ELSE part))
        ELSE c)

\* content[start_idx:end_idx+1] when the text has a "[" and a "]"
SliceBrackets(content) ==
    Bind(content, LAMBDA c :
        Bind(<<Find(c, 1, {"["}), RFind(c, {"]"})>>, LAMBDA idx :
            IF idx[1] # 0 /\ idx[2] # 0 THEN SubSeq(c, idx[1], idx[2]) ELSE c))

\* the places of the commas that a "}" or a "]" follows, whitespace apart
TrailingCommas(c) ==
    {j \in 1..Len(c) : /\ c[j] = ","
                       /\ SkipWs(c, j + 1) <= Len(c)
                       /\ c[SkipWs(c, j + 1)] \in {"}", "]"}}

\* the text without the tokens at these positions
Without(c, positions) ==
    [k \in 1..(Len(c) - Cardinality(positions)) |->
        c[CHOOSE j \in k..(k + Cardinality(positions)) :
             /\ j \notin positions
             /\ j - Cardinality({p \in positions : p < j}) = k]]

\* re.sub(r',(\s*[}\]])', r'\1', content): a comma is dropped when a "}" or
\* a "]" is the next token that is not whitespace
RemoveTrailingCommas(content) ==
    Bind(content, LAMBDA c :
        Bind(TrailingCommas(c), LAMBDA positions :
            IF positions = {} THEN c ELSE Without(c, positions)))

\* the characters a word stands for: "long" is a text of 100 characters,
\* "cut" the first 77 of them, every other token one character
WordLength(token) ==
    CASE token = "long" -> 100
      [] token = "cut" -> 77
      [] token = "..." -> 3
      [] OTHER -> 1

CharLen(tokens) == SumSeq([k \in 1..Len(tokens) |-> WordLength(tokens[k])])

\* desc_value[:77] + '...'
Shortened(desc_value) ==
    Bind(Last({k \in 0..Len(desc_value) : CharLen(SubSeq(desc_value, 1, k)) <= 77}),
         LAMBDA n :
            SubSeq(desc_value, 1, n)
            \o (IF n < Len(desc_value) /\ CharLen(SubSeq(desc_value, 1, n)) < 77
                THEN <<"cut">> ELSE << >>)
            \o <<"...">>)

\* the end of the match of r'"description"\s*:\s*"([^"]*)' that starts at
\* i, or 0; open_quote is where the value's opening quote stands
DescriptionOpenQuote(c, i) ==
    IF i + 2 <= Len(c) /\ c[i] = Q /\ c[i + 1] = "description" /\ c[i + 2] = Q
    THEN Bind(SkipWs(c, i + 3), LAMBDA colon :
             IF colon <= Len(c) /\ c[colon] = ":"
             THEN Bind(SkipWs(c, colon + 1), LAMBDA open_quote :
                      IF open_quote <= Len(c) /\ c[open_quote] = Q
                      THEN open_quote ELSE 0)
             ELSE 0)
    ELSE 0

DescriptionEnd(c, open_quote) ==
    Bind(Find(c, open_quote + 1, {Q}), LAMBDA close :
        IF close = 0 THEN Len(c) ELSE close - 1)

\* re.search(r'"\s*[,}]', full_line) on the tokens i..end of the text
QuoteThenCommaOrBrace(c, i, end) ==
    \E p \in i..end :
        /\ c[p] = Q
        /\ SkipWs(c, p + 1) <= end
        /\ c[SkipWs(c, p + 1)] \in {",", "}"}

\* fix_truncated_description: what the match i..end is replaced with.  The
\* match ends before the closing quote of the value, if there is one.
fix_truncated_description(c, i, open_quote, end) ==
    IF ~QuoteThenCommaOrBrace(c, i, end)
    THEN Bind(SubSeq(c, open_quote + 1, end), LAMBDA desc_value :
             <<Q, "description", Q, ":", WS, Q>>
             \o (IF CharLen(desc_value) > 80 THEN Shortened(desc_value)
                 ELSE desc_value)
             \o <<Q>>)
    ELSE SubSeq(c, i, end)

\* the matches from position i on, each replaced
RECURSIVE FixFrom(_, _, _)
FixFrom(c, i, out) ==
    Bind(Find(c, i, {"description"}), LAMBDA word :
        IF word = 0 THEN out \o SubSeq(c, i, Len(c))
        ELSE Bind(IF word > i THEN DescriptionOpenQuote(c, word - 1) ELSE 0,
                  LAMBDA open_quote :
                     IF open_quote = 0
                     THEN FixFrom(c, word + 1, out \o SubSeq(c, i, word))
                     ELSE Bind(DescriptionEnd(c, open_quote), LAMBDA end :
                              FixFrom(c, end + 1,
                                  out \o SubSeq(c, i, word - 2)
                                      \o fix_truncated_description(
                                             c, word - 1, open_quote, end)))))

\* re.sub(r'"description"\s*:\s*"([^"]*)', fix_truncated_description, content)
FixDescriptions(content) == Bind(content, LAMBDA c : FixFrom(c, 1, << >>))

\* n closers, each on a line of its own
Closers(n, closer) == [k \in 1..2 * n |-> IF k % 2 = 1 THEN WS ELSE closer]

\* the closers for open_braces braces and open_brackets brackets.  After a
\* comma or a quote they are appended in the order the four `if` statements
\* stand in: activity "}", day "}", activities "]", days "]"; what is still
\* open then is closed braces first.
ClosersFor(open_braces, open_brackets, in_object) ==
    LET activity == IF in_object /\ open_braces >= 2 THEN 1 ELSE 0
        day == IF in_object /\ open_braces - activity >= 1 THEN 1 ELSE 0
        activities == IF in_object /\ open_brackets >= 1 THEN 1 ELSE 0
        days == IF in_object /\ open_brackets - activities >= 1 THEN 1 ELSE 0
    IN  Closers(activity, "}") \o Closers(day, "}")
        \o Closers(activities, "]") \o Closers(days, "]")
        \o Closers(Max(open_braces - activity - day, 0), "}")
        \o Closers(Max(open_brackets - activities - days, 0), "]")

\* the text ends, whitespace apart, in one of the tokens
EndsWith(c, tokens) ==
    Bind(Last({j \in 1..Len(c) : c[j] # WS}), LAMBDA end :
        end # 0 /\ c[end] \in tokens)

\* step 4: the unclosed brackets and braces are counted over the whole text
\* and closed
CloseUnclosed(content) ==
    Bind(content, LAMBDA c :
        Bind(<<Count(c, "{") - Count(c, "}"), Count(c, "[") - Count(c, "]")>>,
             LAMBDA open :
                IF open[1] > 0 \/ open[2] > 0
                THEN c \o ClosersFor(open[1], open[2], EndsWith(c, {",", Q}))
                ELSE c))

(***************************************************************************)
(* Step 6: the day objects day_pattern finds.  A matcher returns the       *)
(* position after what it matched, or 0.                                   *)
(***************************************************************************)
\* day_pattern =
\*   \{\s*"day"\s*:\s*\d+\s*,\s*"activities"\s*:\s*\[\s*
\*   (?:\{(?:[^{}]|\{[^}]*\})*\}\s*,?\s*)*\]\s*\}

\* the token at position i
Lit(c, i, token) == IF i # 0 /\ i <= Len(c) /\ c[i] = token THEN i + 1 ELSE 0

\* \s* and the token
WsLit(c, i, token) ==
    Bind(i, LAMBDA at : IF at = 0 THEN 0 ELSE Lit(c, SkipWs(c, at), token))

\* tokens one after the other, each after \s* if `spaced`
RECURSIVE Lits(_, _, _)
Lits(c, i, tokens) ==
    IF Len(tokens) = 0 THEN i
    ELSE Bind(IF Head(tokens).spaced THEN WsLit(c, i, Head(tokens).token)
              ELSE Lit(c, i, Head(tokens).token),
              LAMBDA next : IF next = 0 THEN 0 ELSE Lits(c, next, Tail(tokens)))

\* \s*\d+
WsDigits(c, i) ==
    Bind(i, LAMBDA at :
        IF at = 0 \/ Lit(c, SkipWs(c, at), Digit) = 0 THEN 0
        ELSE SkipDigits(c, SkipWs(c, at)))

\* (?:[^{}]|\{[^}]*\})*\} from position i, inside an activity object
RECURSIVE ActivityEnd(_, _)
ActivityEnd(c, i) ==
    Bind(Find(c, i, {"{", "}"}), LAMBDA brace :
        IF brace = 0 THEN 0
        ELSE IF c[brace] = "}" THEN brace + 1
        ELSE Bind(Find(c, brace + 1, {"}"}), LAMBDA close :
                 IF close = 0 THEN 0 ELSE ActivityEnd(c, close + 1)))

\* (?:\{...\}\s*,?\s*)*\] from position i
RECURSIVE ActivitiesEnd(_, _)
ActivitiesEnd(c, i) ==
    Bind(i, LAMBDA at :
        IF at = 0 \/ at > Len(c) THEN 0
        ELSE IF c[at] = "]" THEN at + 1
        ELSE IF c[at] = "{"
        THEN Bind(ActivityEnd(c, at + 1), LAMBDA e :
                 IF e = 0 THEN 0
                 ELSE Bind(SkipWs(c, e), LAMBDA j :
                          ActivitiesEnd(c, IF j <= Len(c) /\ c[j] = ","
                                           THEN SkipWs(c, j + 1) ELSE j)))
        ELSE 0)

\* the day object that starts at i
DayEnd(c, i) ==
    Bind(Lits(c, i, <<[token |-> "{", spaced |-> FALSE],
                      [token |-> Q, spaced |-> TRUE],
                      [token |-> "day", spaced |-> FALSE],
                      [token |-> Q, spaced |-> FALSE],
                      [token |-> ":", spaced |-> TRUE]>>),
         LAMBDA key :
            Bind(Lits(c, WsDigits(c, key),
                      <<[token |-> ",", spaced |-> TRUE],
                        [token |-> Q, spaced |-> TRUE],
                        [token |-> "activities", spaced |-> FALSE],
                        [token |-> Q, spaced |-> FALSE],
                        [token |-> ":", spaced |-> TRUE],
                        [token |-> "[", spaced |-> TRUE]>>),
                 LAMBDA open :
                    IF open = 0 THEN 0
                    ELSE WsLit(c, ActivitiesEnd(c, SkipWs(c, open)), "}")))

\* the matches from position i on
RECURSIVE DayMatchesFrom(_, _, _)
DayMatchesFrom(c, i, found) ==
    Bind(Find(c, i, {"{"}), LAMBDA open :
        IF open = 0 THEN found
        ELSE Bind(DayEnd(c, open), LAMBDA e :
                 IF e = 0 THEN DayMatchesFrom(c, open + 1, found)
                 ELSE DayMatchesFrom(c, e, Append(found, SubSeq(c, open, e - 1)))))

\* re.findall(day_pattern, content, re.DOTALL)
DayMatches(content) == Bind(content, LAMBDA c : DayMatchesFrom(c, 1, << >>))

\* ','.join(clean_days) from the k-th on
RECURSIVE JoinedFrom(_, _)
JoinedFrom(clean_days, k) ==
    IF k > Len(clean_days) THEN << >>
    ELSE (IF k > 1 THEN <<",">> ELSE << >>) \o clean_days[k]
         \o JoinedFrom(clean_days, k + 1)

\* '[' + ','.join(clean_days) + ']'
Joined(clean_days) == <<"[">> \o JoinedFrom(clean_days, 1) \o <<"]">>

Salvaged(content) ==
    Bind(DayMatches(content), LAMBDA day_matches :
        Bind([k \in 1..Len(day_matches) |-> RemoveTrailingCommas(day_matches[k])],
             LAMBDA clean_days :
                [matched |-> Len(day_matches), content |-> Joined(clean_days)]))

(***************************************************************************)
(* From the text to days_data: the stage that parsed it, or none.          *)
(***************************************************************************)
\* step 6 on the repaired text
SalvageDays(steps) ==
    Bind(Salvaged(steps.repaired), LAMBDA salvaged :
        Bind(json_loads(salvaged.content), LAMBDA third :
            IF salvaged.matched > 0 /\ third.ok
            THEN [stage |-> "salvaged", days_data |-> third.v, steps |-> steps]
            ELSE [stage |-> "unparseable", steps |-> steps]))

\* steps 1 to 4 on the text json.loads refused
RepairSteps(content) ==
    Bind(RemoveTrailingCommas(content), LAMBDA no_commas :
        Bind(FixDescriptions(no_commas), LAMBDA fixed :
            Bind(RemoveTrailingCommas(fixed), LAMBDA unclosed :
                [no_commas |-> no_commas, fixed |-> fixed, unclosed |-> unclosed,
                 repaired |-> CloseUnclosed(unclosed)])))

\* steps 1 to 6
Repair(content) ==
    Bind(RepairSteps(content), LAMBDA steps :
        Bind(json_loads(steps.repaired), LAMBDA second :
            IF second.ok
            THEN [stage |-> "repaired", days_data |-> second.v, steps |-> steps]
            ELSE SalvageDays(steps)))

parse_days_data(text) ==
    Bind(Strip(text), LAMBDA stripped :
        IF Len(stripped) = 0 THEN [stage |-> "empty_text"]
        ELSE Bind(Strip(SliceBrackets(StripFence(stripped))), LAMBDA content :
                 Bind(json_loads(content), LAMBDA first :
                     IF first.ok THEN [stage |-> "first_try", days_data |-> first.v]
                     ELSE Repair(content))))

(***************************************************************************)
(* The conversion to DayPlan objects.  Whatever raises in it (a missing    *)
(* key, a value of the wrong type) is caught by the outer except clause.   *)
(***************************************************************************)
\* the items a `for` loop over the value runs through; a number cannot be
\* iterated, a dict gives its keys and a str its characters
Iterable(value) == value.t # "number"

Items(value) ==
    CASE value.t = "list" -> value.v
      [] value.t = "dict" ->
            [k \in 1..Len(value.v) |-> [t |-> "str", v |-> value.v[k].key]]
      [] OTHER -> [k \in 1..Len(value.v) |-> [t |-> "str", v |-> <<value.v[k]>>]]

\* the digits of a number, or of a str that float() and int() take
Numeric(value) ==
    /\ value.t \in {"number", "str"}
    /\ Len(value.v) > 0
    /\ \A k \in 1..Len(value.v) : value.v[k] = Digit

\* the number the digits write
RECURSIVE NumberOf(_)
NumberOf(digits) ==
    IF Len(digits) = 0 THEN 0
    ELSE 10 * NumberOf(SubSeq(digits, 1, Len(digits) - 1)) + 1

\* Activity(name=act["name"], icon=act.get("icon", ...), time=act["time"],
\*          cost=float(act.get("cost", 0)), description=act["description"])
ActivityConverts(act) ==
    /\ act.t = "dict"
    /\ \A key \in {"name", "time", "description"} :
          HasKey(act, key) /\ Item(act, key).t = "str"
    /\ HasKey(act, "icon") => Item(act, "icon").t = "str"
    /\ HasKey(act, "cost") => Numeric(Item(act, "cost"))

\* DayPlan(day=day_data["day"], ..., activities=activities, ...)
DayConverts(day_data) ==
    /\ day_data.t = "dict"
    /\ HasKey(day_data, "activities")
    /\ Iterable(Item(day_data, "activities"))
    /\ Bind(Items(Item(day_data, "activities")), LAMBDA acts :
            \A k \in 1..Len(acts) : ActivityConverts(acts[k]))
    /\ HasKey(day_data, "day")
    /\ Numeric(Item(day_data, "day"))

\* the Activity of an activity object: name and description as the text has
\* them, the cost in paise
ActivityOf(act) ==
    [name |-> Item(act, "name").v,
     time |-> Item(act, "time").v,
     description |-> Item(act, "description").v,
     cost |-> IF HasKey(act, "cost") THEN 100 * NumberOf(Item(act, "cost").v) ELSE 0]

\* the DayPlan of a day object
DayPlanOf(day_data) ==
    Bind(Items(Item(day_data, "activities")), LAMBDA acts :
        Bind([k \in 1..Len(acts) |-> ActivityOf(acts[k])], LAMBDA activities :
            [day |-> NumberOf(Item(day_data, "day").v),
             activities |-> activities,
             total_cost |-> SumSeq(CostsOf(activities))]))

\* the result of the method for what the parser made of the text, with a
\* DayPlan of each day or of none
Converted(parsed, fallback) ==
    IF parsed.stage \in {"empty_text", "unparseable"} THEN fallback
    ELSE IF ~Iterable(parsed.days_data) THEN fallback
    ELSE Bind(Items(parsed.days_data), LAMBDA days :
             IF \E k \in 1..Len(days) : ~DayConverts(days[k]) THEN fallback
             ELSE [path |-> parsed.stage, parsed |-> parsed,
                   itinerary |-> [k \in 1..Len(days) |-> DayPlanOf(days[k])]])

\* a parser that keeps the days that convert and fills in a synthetic day
\* for each one that does not
itinerary_from_text_patched(request, num_days, text) ==
    Bind(parse_days_data(text), LAMBDA parsed :
        Bind(generate_fallback_itinerary(request, num_days), LAMBDA synthetic :
            IF parsed.stage \in {"empty_text", "unparseable"}
               \/ ~Iterable(parsed.days_data)
            THEN [path |-> "fallback", parsed |-> parsed, itinerary |-> synthetic]
            ELSE Bind(Items(parsed.days_data), LAMBDA days :
                     [path |-> parsed.stage, parsed |-> parsed,
                      itinerary |-> [k \in 1..Len(days) |->
                                        IF DayConverts(days[k]) THEN DayPlanOf(days[k])
                                        ELSE synthetic[Min(k, Len(synthetic))]]])))

\* _generate_ai_itinerary on an answer with this text (finish_reason is
\* only logged)
itinerary_from_text(request, num_days, text) ==
    Bind(parse_days_data(text), LAMBDA parsed :
        Converted(parsed,
                  [path |-> "fallback", parsed |-> parsed,
                   itinerary |-> generate_fallback_itinerary(request, num_days)]))

(***************************************************************************)
(* Valid answers of the AI, as the prompt asks for them: a list of         *)
(* MaxAiDays day objects, two activities on day 1 and one on the others,   *)
(* minified, spaced out, or in a code fence.  The first description of     *)
(* each day is longer than 80 characters.                                  *)
(***************************************************************************)
StrText(words) == <<Q>> \o words \o <<Q>>

MemberText(key, value, sep) == StrText(<<key>>) \o <<":">> \o sep \o value

ActivityText(name, description, sep) ==
    <<"{">> \o MemberText("name", StrText(<<name>>), sep)
    \o <<",">> \o sep \o MemberText("time", StrText(<<"x">>), sep)
    \o <<",">> \o sep \o MemberText("cost", <<Digit>>, sep)
    \o <<",">> \o sep \o MemberText("description", StrText(description), sep)
    \o <<"}">>

DayText(day, sep) ==
    <<"{">> \o MemberText("day", <<Digit>>, sep)
    \o <<",">> \o sep
    \o MemberText("activities",
          <<"[">> \o ActivityText("first", <<"long", "x">>, sep)
          \o (IF day = 1
              THEN <<",">> \o sep \o ActivityText("second", <<"x", "x">>, sep)
              ELSE << >>)
          \o <<"]">>, sep)
    \o <<"}">>

RECURSIVE DaysText(_, _)
DaysText(days, sep) ==
    IF days = 0 THEN << >>
    ELSE IF days = 1 THEN DayText(1, sep)
    ELSE DaysText(days - 1, sep) \o <<",">> \o sep \o DayText(days, sep)

TextVariants == {"minified", "spaced", "fenced"}

ValidText(variant) ==
    CASE variant = "minified" -> <<"[">> \o DaysText(MaxAiDays, << >>) \o <<"]">>
      [] variant = "spaced" -> <<"[">> \o DaysText(MaxAiDays, <<WS>>) \o <<"]">>
      [] OTHER -> <<Fence, "json", WS, "[">> \o DaysText(MaxAiDays, << >>)
                  \o <<"]", WS, Fence>>

\* a valid answer cut after `cut` tokens (max_output_tokens), or whole
AiTexts ==
    UNION {[variant : {v}, cut : 1..Len(ValidText(v))] : v \in TextVariants}

TextOf(ai_text) == SubSeq(ValidText(ai_text.variant), 1, ai_text.cut)

Truncated(ai_text) == ai_text.cut < Len(ValidText(ai_text.variant))

(***************************************************************************)
(* The parser specification: _generate_ai_itinerary on every cut of the    *)
(* valid answers, for a family trip of MaxDay days.                        *)
(***************************************************************************)
InitParser ==
    /\ pipeline_context = EmptyContext
    /\ agent_calls = << >>
    /\ last = [layer |-> "none", op |-> "__init__", request |-> << >>,
               coordinator |-> "returned", status |-> "n/a", primed_before |-> FALSE]
    /\ primed = FALSE
    /\ alloc_request = << >>
    /\ alloc_result = NoResult
    /\ agent_request \in [trip_type : {"family"}, start_date : {0},
                          end_date : {MaxDay}, budget_allocation : {400000}]
    /\ agent_response = NoResult
    /\ transport_search = NoSearch
    /\ irctc_client = NewIRCTCClient
    /\ sessions = NoSessions

\* activities_agent._generate_ai_itinerary(request, num_days), called once;
\* the AI answers the first call with the text
AgentParsesItinerary ==
    /\ agent_response = NoResult
    /\ \E ai_text \in AiTexts :
          agent_response' =
              [agent |-> "activities_agent", ai_text |-> ai_text]
              @@ itinerary_from_text(agent_request,
                                     agent_request.end_date - agent_request.start_date,
                                     TextOf(ai_text))
    /\ UNCHANGED <<service_vars, agent_request, transport_search, coord_vars, alloc_vars>>

NextParser == AgentParsesItinerary

SpecParser == InitParser /\ [][NextParser]_vars

\* the answer the parser was given and what it made of it
ParserReturned == agent_response # NoResult

\* the day object has the fields the prompt asks for
CompleteDay(day_data) ==
    /\ day_data.t = "dict"
    /\ HasKey(day_data, "day")
    /\ HasKey(day_data, "activities")
    /\ Item(day_data, "activities").t = "list"
    /\ \A k \in 1..Len(Item(day_data, "activities").v) :
          LET act == Item(day_data, "activities").v[k]
          IN  /\ act.t = "dict"
              /\ \A key \in {"name", "time", "description"} : HasKey(act, key)

\* C23: for every truncation of a valid answer, the itinerary that
\* _generate_ai_itinerary returns is either made of the days parsed from the
\* text, one DayPlan per parsed day and every one of them with all its
\* required fields, or it is the synthetic fallback itinerary as a whole.
C23_ParsedDaysOrFallback ==
    ParserReturned =>
        IF agent_response.path = "fallback"
        THEN agent_response.itinerary
                 = generate_fallback_itinerary(
                       agent_request, agent_request.end_date - agent_request.start_date)
        ELSE LET days == Items(agent_response.parsed.days_data)
             IN  /\ Len(agent_response.itinerary) = Len(days)
                 /\ \A k \in 1..Len(days) :
                       /\ CompleteDay(days[k])
                       /\ agent_response.itinerary[k] = DayPlanOf(days[k])

\* a cut answer whose repaired text parses to a day without its fields: the
\* whole itinerary is the fallback
C23_Witness ==
    /\ ParserReturned
    /\ Truncated(agent_response.ai_text)
    /\ agent_response.parsed.stage = "repaired"
    /\ \E k \in 1..Len(Items(agent_response.parsed.days_data)) :
          ~CompleteDay(Items(agent_response.parsed.days_data)[k])
    /\ agent_response.path = "fallback"
    /\ Len(agent_response.itinerary) = MaxDay

\* day k of the whole answer, as json.loads reads it
AiDay(variant, k) ==
    Items(json_loads(Strip(SliceBrackets(StripFence(ValidText(variant))))).v)[k]

\* the answer is cut inside the value of a description of the given day:
\* the value has begun, and the next token of the whole answer is not the
\* quote that ends it
CutMidDescription(ai_text, day) ==
    Bind(ValidText(ai_text.variant), LAMBDA whole :
        Bind(SubSeq(whole, 1, ai_text.cut), LAMBDA c :
            Bind(RFind(c, {"description"}), LAMBDA word :
                /\ Count(c, "day") = day
                /\ word > 1
                /\ Bind(DescriptionOpenQuote(c, word - 1), LAMBDA open_quote :
                       /\ open_quote # 0
                       /\ open_quote < Len(c)
                       /\ Find(c, open_quote + 1, {Q}) = 0)
                /\ whole[ai_text.cut + 1] # Q)))

\* C22: for a valid 3-day answer cut in the middle of a description on day
\* 2, the returned itinerary's day 1 is the AI's day 1 as parsed from the
\* text, and day 2 is either salvaged or dropped together with day 3.
C22_Day1KeptWhenCutOnDay2 ==
    (ParserReturned /\ CutMidDescription(agent_response.ai_text, 2))
        => /\ agent_response.path # "fallback"
           /\ Len(agent_response.itinerary) \in {1, 2}
           /\ agent_response.itinerary[1]
                  = DayPlanOf(AiDay(agent_response.ai_text.variant, 1))
           /\ Len(agent_response.itinerary) = 2
                  => agent_response.itinerary[2].day = 2

\* the places of the "description" keys that have a str value
DescriptionKeys(c) ==
    {p \in 2..Len(c) : c[p] = "description" /\ DescriptionOpenQuote(c, p - 1) # 0}

\* the value that opens at open_quote is properly terminated: a closing
\* quote, followed by a comma or a closing brace
Terminated(c, open_quote) ==
    Bind(Find(c, open_quote + 1, {Q}), LAMBDA close :
        /\ close # 0
        /\ SkipWs(c, close + 1) <= Len(c)
        /\ c[SkipWs(c, close + 1)] \in {",", "}"})

\* C27: in the repair, a description whose value is properly terminated is
\* left unchanged by the truncated-description fix: a text in which every
\* description is terminated leaves the step as it entered it.
C27_TerminatedDescriptionsUnchanged ==
    (/\ ParserReturned
     /\ "steps" \in DOMAIN agent_response.parsed
     /\ DescriptionKeys(agent_response.parsed.steps.no_commas) # {}
     /\ \A p \in DescriptionKeys(agent_response.parsed.steps.no_commas) :
           Terminated(agent_response.parsed.steps.no_commas,
                      DescriptionOpenQuote(agent_response.parsed.steps.no_commas, p - 1)))
        => agent_response.parsed.steps.fixed = agent_response.parsed.steps.no_commas

\* the closers step 4 appended to the text, without the whitespace
AppendedClosers(steps) ==
    SelectSeq(SubSeq(steps.repaired, Len(steps.unclosed) + 1, Len(steps.repaired)),
              LAMBDA token : token # WS)

\* the text is cut inside an activity object: two braces and two brackets
\* are open and the text ends in a quote or a comma
CutInsideActivity(c) ==
    /\ Count(c, "{") - Count(c, "}") = 2
    /\ Count(c, "[") - Count(c, "]") = 2
    /\ EndsWith(c, {",", Q})

\* C28: when the text is cut inside an activity object, the repair appends
\* exactly the missing closers in nesting order: the activity object, the
\* activities array, the day object, the day array.
C28_ClosersInNestingOrder ==
    (/\ ParserReturned
     /\ "steps" \in DOMAIN agent_response.parsed
     /\ CutInsideActivity(agent_response.parsed.steps.unclosed))
        => AppendedClosers(agent_response.parsed.steps) = <<"}", "]", "}", "]">>

====
